---- MODULE Spec2Model ----
(***************************************************************************)
(* TypeAware: the stream scheduler (ai/real_time/stream_processor.py), the *)
(* orchestrating engine (ai/main_engine.py) and the part of the behavioral *)
(* pattern tracker (ai/detection/pattern_analyzer.py) and of the category  *)
(* detector (ai/detection/content_detection_engine.py) that they drive.    *)
(*                                                                         *)
(* Scores are exact integers: 1.0 is ONE units, so that averages, the      *)
(* 0.6/0.4/0.1 weights and the context multipliers are computed without    *)
(* rounding.  time.time() is the integer clock `now`; successive           *)
(* add_message calls are taken to read distinct timestamps, so the order   *)
(* of the timestamps is the order of the message ids.                      *)
(***************************************************************************)
EXTENDS Integers, Sequences, FiniteSets, TLC

\* ---------------------------------------------------------------- bounds
\* number of messages add_message can enqueue in one behaviour
MaxMsgs == 4
\* last value of the clock
MaxTime == 3
\* rate_limit_window, scaled down from 60 seconds (stream_processor.py:109)
RateLimitWindow == 2
\* rate_limit_max, scaled down from 50 messages (stream_processor.py:110)
RateLimitMax == 2
\* PriorityQueue(maxsize=...) of each tier, scaled down from 1000/2000/5000/2000
CriticalQueueSize == 1
HighQueueSize == 2
NormalQueueSize == 2
LowQueueSize == 1
\* config['processing_timeout'], scaled down from 5.0 seconds
ProcessingTimeout == 1
\* deque(maxlen=1000) and deque(maxlen=500), scaled down
ProcessedMaxLen == 1
BlockedMaxLen == 1
\* number of analyze_content calls in one behaviour
MaxAnalyses == 2
\* number of direct analyze_message_patterns calls in one behaviour
MaxTrackerCalls == 5
\* how far the clock runs while the tracker is called directly
MaxTrackerTime == 6
\* the tracker's windows short_window (5 minutes), medium_window (1 hour) and
\* long_window (24 hours), and the default retention (168 hours), in clock
\* ticks
ShortWindow == 1
MediumWindow == 2
LongWindow == 3
RetentionSeconds == 4
\* the 10 messages of an activity spike
SpikeCount == 4
\* the 50 messages a conversation history keeps
MaxConversationLen == 2
\* the 100 timestamps a profile keeps, scaled down (pattern_analyzer.py:275)
MaxTimePatterns == 4
\* _update_user_profile calls made by the tier workers
MaxUpdates == 3
\* the 1000 results the detection cache holds, scaled down
\* (content_detection_engine.py:63)
MaxCacheSize == 2
\* detect_abusive_content calls made
MaxDetectCalls == 5
\* add_custom_pattern and remove_pattern calls made
MaxTaxonomyCalls == 2
MaxTaxonomyDetects == 3
MaxEscalationCalls == 3
MaxEscalationMessages == 2

\* ------------------------------------------------------ program constants
max_retry_attempts == 3
\* the rules' min_occurrences, frequency_threshold and min_participants, and
\* the message count of the late-night test
min_occurrences == 3
frequency_threshold == 2
min_participants == 2
late_night_count == 3
\* time.time() at the moment the model's clock reads 0, in clock ticks: more
\* than any window
ClockOrigin == 1000
\* 1.0 in score units
ONE == 3000000
\* config['blocking_threshold'] = 0.7, config['high_risk_threshold'] = 0.8 and
\* the is_abusive cut 0.3, in score units
blocking_threshold == (7 * ONE) \div 10
high_risk_threshold == (8 * ONE) \div 10
abusive_threshold == (3 * ONE) \div 10
\* the engine's config['suggestion_threshold'] 0.3, in score units
suggestion_threshold == (3 * ONE) \div 10

Users == {"u1", "u2"}
Absent == "absent"
MsgIds == 1..MaxMsgs
NoMsg == 0

\* MessagePriority
MessagePriority == {"LOW", "NORMAL", "HIGH", "CRITICAL"}

\* ProcessingStatus; "none" is an id add_message has not yet created
ProcessingStatus == {"pending", "processing", "completed", "failed", "blocked"}

\* the keys of StreamProcessor.callbacks
EventTypes == {"on_message_processed", "on_message_blocked",
               "on_high_risk_detected", "on_processing_error"}

\* what the caller's content looks like to _determine_priority
ContentKinds == {"threat", "harassment", "long", "plain"}

Min(a, b) == IF a <= b THEN a ELSE b
Max(a, b) == IF a >= b THEN a ELSE b

RECURSIVE SumSeq(_)
SumSeq(s) == IF s = <<>> THEN 0 ELSE Head(s) + SumSeq(Tail(s))

VARIABLES
    is_running,          \* StreamProcessor.is_running
    now,                 \* time.time()
    next_id,             \* number of StreamMessages created so far
    status,              \* StreamMessage.status, "none" before creation
    retry_count,         \* StreamMessage.retry_count
    priority,            \* StreamMessage.priority
    msg_user,            \* StreamMessage.user_id
    msg_ctx_user,        \* StreamMessage.context.get('user_id')
    priority_queues,     \* tier -> the ids held by its PriorityQueue
    rate_limits,         \* dict user -> <<count, window_start>>
    callbacks,           \* event type -> number of registered callbacks
    wpc,                 \* position of each tier's worker thread
    wcur,                \* the message a worker holds
    wstart,              \* message.processing_start_time of that message
    wresult,             \* the ProcessingResult the worker built
    processed_messages,  \* deque of processed records
    blocked_messages,    \* deque of blocked records
    stats,               \* messages_processed / messages_blocked counters
    fired,               \* callbacks invoked so far: <<event, message id>>
    last_add,            \* outcome of the latest add_message call
    attempts,            \* times _process_message started on a message
    accepted_at,         \* user -> times at which add_message enqueued
    user_profiles,       \* PatternAnalyzer.user_profiles, a dict
    analysis_cache,      \* TypeAwareEngine.analysis_cache, a dict
    total_analyses,      \* TypeAwareEngine.stats['total_analyses']
    calls,               \* number of analyze_content calls made
    last_request,        \* the request and detector outputs of the latest call
    response,            \* what the latest analyze_content call gave back
    conversation_history,\* PatternAnalyzer.conversation_history, a dict
    tcalls,              \* number of direct calls made to the tracker
    last_context,        \* message and context of the latest tracker call
    last_patterns,       \* the matches the latest tracker call returned
    sent_log,            \* every tracker call so far: who, to whom, where, when
    upc,                 \* position of each thread inside _update_user_profile
    ulocal,              \* that thread's user_id, timestamp and membership test
    ucount,              \* user -> _update_user_profile calls that returned
    detection_cache,     \* ContentDetectionEngine.detection_cache, in dict order
    dpc,                 \* position of each thread inside detect_abusive_content
    dlocal,              \* that thread's text, result and oldest_key
    dcalls,              \* number of detect_abusive_content calls started
    returned,            \* every <<text, context, risk score>> a detect call returned
    last_detect,         \* the latest detect call that returned, and its result
    abusive_patterns,    \* ContentDetectionEngine.abusive_patterns, in dict order
    pcalls,              \* number of add_custom_pattern / remove_pattern calls
    last_pattern_call,   \* the latest such call: arguments, result, taxonomy before
    fusion_input,        \* the component results handed to risk fusion
    stream_risk,         \* what StreamProcessor._calculate_overall_risk gave
    engine_risk,         \* what TypeAwareEngine._calculate_overall_risk gave
    ecalls,              \* number of update_escalation_score calls made
    last_escalation,     \* the latest such call: user, time, increase, idle period
    last_obfuscation     \* the latest detect_obfuscated_words call and its result

vars == <<is_running, now, next_id, status, retry_count, priority, msg_user,
          msg_ctx_user, priority_queues, rate_limits, callbacks, wpc, wcur,
          wstart, wresult, processed_messages, blocked_messages, stats, fired,
          last_add, attempts, accepted_at, user_profiles, analysis_cache,
          total_analyses, calls, last_request, response,
          conversation_history, tcalls, last_context, last_patterns,
          sent_log, upc, ulocal, ucount, detection_cache, dpc, dlocal,
          dcalls, returned, last_detect, abusive_patterns, pcalls,
          last_pattern_call, fusion_input, stream_risk, engine_risk, ecalls,
          last_escalation, last_obfuscation>>

\* the variables of the engine that the stream scheduler leaves alone
engine_vars == <<analysis_cache, total_analyses, calls, last_request, response>>

\* the variables of the tracker that only its direct callers change
tracker_vars == <<conversation_history, tcalls, last_context, last_patterns,
                  sent_log>>

\* the position of the threads that are inside _update_user_profile
update_vars == <<upc, ulocal, ucount>>

\* the variables of the category detector and its cache
cache_vars == <<detection_cache, dpc, dlocal, dcalls, returned, last_detect>>

\* the taxonomy of the category detector and the calls that change it
taxonomy_vars == <<abusive_patterns, pcalls, last_pattern_call>>

\* all the variables of the category detector
detector_vars == <<cache_vars, taxonomy_vars>>

\* the inputs and outputs of the two risk fusion functions
fusion_vars == <<fusion_input, stream_risk, engine_risk>>

\* the calls of update_escalation_score
escalation_vars == <<ecalls, last_escalation>>

\* the calls of detect_obfuscated_words
obfuscation_vars == <<last_obfuscation>>

\* what the scheduler, the engine and the tracker's entry points leave alone
other_vars == <<update_vars, detector_vars, fusion_vars, escalation_vars,
                obfuscation_vars>>

\* the variables of the stream scheduler that analyze_content leaves alone
stream_vars == <<is_running, now, next_id, status, retry_count, priority,
                 msg_user, msg_ctx_user, priority_queues, rate_limits,
                 callbacks, wpc, wcur, wstart, wresult, processed_messages,
                 blocked_messages, stats, fired, last_add, attempts,
                 accepted_at>>

\* ------------------------------------------------------- stream scheduler
\* PriorityQueue(maxsize=...) per tier
QueueMaxSize(tier) ==
    CASE tier = "CRITICAL" -> CriticalQueueSize
      [] tier = "HIGH" -> HighQueueSize
      [] tier = "NORMAL" -> NormalQueueSize
      [] OTHER -> LowQueueSize

QueueFull(tier) == Cardinality(priority_queues[tier]) >= QueueMaxSize(tier)

\* PriorityQueue.get(): entries are (-timestamp, message), so the smallest
\* entry is the message with the latest timestamp
QueueHead(tier) ==
    CHOOSE m \in priority_queues[tier] : \A o \in priority_queues[tier] : o <= m

\* d[k] = v on a dict
SetEntry(d, k, v) == [x \in DOMAIN d \cup {k} |-> IF x = k THEN v ELSE d[x]]

\* _determine_priority
DeterminePriority(content, user_risk_high) ==
    IF content = "threat" THEN "CRITICAL"
    ELSE IF user_risk_high THEN "HIGH"
    ELSE IF content = "harassment" THEN "HIGH"
    ELSE IF content = "long" THEN "HIGH"
    ELSE "NORMAL"

\* a limit test that admits one message too many per window
LimitExceededOffByOne(count) == count > RateLimitMax

\* the limit test of _is_rate_limited: count >= self.rate_limit_max
LimitExceeded(count) == count >= RateLimitMax

\* _is_rate_limited: the verdict and the entry it leaves in rate_limits
IsRateLimited(user) ==
    IF user \notin DOMAIN rate_limits
    THEN [limited |-> FALSE, entry |-> <<1, now>>]
    ELSE LET count == rate_limits[user][1]
             window_start == rate_limits[user][2]
         IN  IF now - window_start > RateLimitWindow
             THEN [limited |-> FALSE, entry |-> <<1, now>>]
             ELSE IF LimitExceeded(count)
             THEN [limited |-> TRUE, entry |-> rate_limits[user]]
             ELSE [limited |-> FALSE, entry |-> <<count + 1, window_start>>]

\* start_processing: the four tier workers begin their loops
StartProcessing ==
    /\ ~is_running
    /\ is_running' = TRUE
    /\ UNCHANGED <<now, next_id, status, retry_count, priority, msg_user,
                   msg_ctx_user, priority_queues, rate_limits, callbacks, wpc,
                   wcur, wstart, wresult, processed_messages, blocked_messages,
                   stats, fired, last_add, attempts, accepted_at, user_profiles,
                   engine_vars, tracker_vars,
                   other_vars>>

\* the clock advances
Tick ==
    /\ now < MaxTime
    /\ now' = now + 1
    /\ UNCHANGED <<is_running, next_id, status, retry_count, priority, msg_user,
                   msg_ctx_user, priority_queues, rate_limits, callbacks, wpc,
                   wcur, wstart, wresult, processed_messages, blocked_messages,
                   stats, fired, last_add, attempts, accepted_at, user_profiles,
                   engine_vars, tracker_vars,
                   other_vars>>

\* register_callback(event_type, callback)
RegisterCallback(event) ==
    /\ callbacks[event] = 0
    /\ callbacks' = [callbacks EXCEPT ![event] = 1]
    /\ UNCHANGED <<is_running, now, next_id, status, retry_count, priority,
                   msg_user, msg_ctx_user, priority_queues, rate_limits, wpc,
                   wcur, wstart, wresult, processed_messages, blocked_messages,
                   stats, fired, last_add, attempts, accepted_at, user_profiles,
                   engine_vars, tracker_vars,
                   other_vars>>

\* add_message called while the processor is not running: RuntimeError
AddMessageNotRunning(user) ==
    /\ ~is_running
    /\ last_add' = [user |-> user, outcome |-> "RuntimeError",
                    rate_limited |-> FALSE, enqueued |-> FALSE]
    /\ UNCHANGED <<is_running, now, next_id, status, retry_count, priority,
                   msg_user, msg_ctx_user, priority_queues, rate_limits,
                   callbacks, wpc, wcur, wstart, wresult, processed_messages,
                   blocked_messages, stats, fired, attempts, accepted_at,
                   user_profiles,
                   engine_vars, tracker_vars,
                   other_vars>>

\* add_message, rate limited: logs a warning and returns the message id
AddMessageRateLimited(user) ==
    /\ is_running
    /\ IsRateLimited(user).limited
    /\ rate_limits' = SetEntry(rate_limits, user, IsRateLimited(user).entry)
    /\ last_add' = [user |-> user, outcome |-> "message_id",
                    rate_limited |-> TRUE, enqueued |-> FALSE]
    /\ UNCHANGED <<is_running, now, next_id, status, retry_count, priority,
                   msg_user, msg_ctx_user, priority_queues, callbacks, wpc,
                   wcur, wstart, wresult, processed_messages, blocked_messages,
                   stats, fired, attempts, accepted_at, user_profiles,
                   engine_vars, tracker_vars,
                   other_vars>>

\* add_message, the tier's queue is full: put(timeout=1.0) raises queue.Full,
\* which add_message logs and raises again
AddMessageQueueFull(user, content, user_risk_high) ==
    /\ is_running
    /\ ~IsRateLimited(user).limited
    /\ QueueFull(DeterminePriority(content, user_risk_high))
    /\ rate_limits' = SetEntry(rate_limits, user, IsRateLimited(user).entry)
    /\ last_add' = [user |-> user, outcome |-> "Full",
                    rate_limited |-> FALSE, enqueued |-> FALSE]
    /\ UNCHANGED <<is_running, now, next_id, status, retry_count, priority,
                   msg_user, msg_ctx_user, priority_queues, callbacks, wpc,
                   wcur, wstart, wresult, processed_messages, blocked_messages,
                   stats, fired, attempts, accepted_at, user_profiles,
                   engine_vars, tracker_vars,
                   other_vars>>

\* add_message, accepted: the StreamMessage is created PENDING and queued
AddMessageQueued(user, content, user_risk_high, ctx_user) ==
    LET tier == DeterminePriority(content, user_risk_high)
        id == next_id + 1
    IN  /\ is_running
        /\ next_id < MaxMsgs
        /\ ~IsRateLimited(user).limited
        /\ ~QueueFull(tier)
        /\ rate_limits' = SetEntry(rate_limits, user, IsRateLimited(user).entry)
        /\ next_id' = id
        /\ status' = [status EXCEPT ![id] = "pending"]
        /\ priority' = [priority EXCEPT ![id] = tier]
        /\ msg_user' = [msg_user EXCEPT ![id] = user]
        /\ msg_ctx_user' = [msg_ctx_user EXCEPT ![id] = ctx_user]
        /\ priority_queues' = [priority_queues EXCEPT ![tier] = @ \cup {id}]
        /\ accepted_at' = [accepted_at EXCEPT ![user] = Append(@, now)]
        /\ last_add' = [user |-> user, outcome |-> "message_id",
                        rate_limited |-> FALSE, enqueued |-> TRUE]
        /\ UNCHANGED <<is_running, now, retry_count, callbacks, wpc, wcur,
                       wstart, wresult, processed_messages, blocked_messages,
                       stats, fired, attempts, user_profiles,
                   engine_vars, tracker_vars,
                   other_vars>>

\* add_message(content, user_id, platform, context)
AddMessage(user, content, user_risk_high, ctx_user) ==
    \/ AddMessageNotRunning(user)
    \/ AddMessageRateLimited(user)
    \/ AddMessageQueueFull(user, content, user_risk_high)
    \/ AddMessageQueued(user, content, user_risk_high, ctx_user)

\* ---------------------------------------------- behavioral pattern tracker
ProfileKeys == Users \cup {"anonymous"}

\* UserBehaviorProfile(user_id=user_id)
NewProfile ==
    [message_count |-> 0, time_patterns |-> <<>>, last_activity |-> -1,
     platform_activity |-> 0, target_users |-> {}, escalation_score |-> 0]

\* the last n entries of a list: s[-n:]
LastN(s, n) == IF Len(s) <= n THEN s ELSE SubSeq(s, Len(s) - n + 1, Len(s))

\* context.get('user_id', 'anonymous')
ContextUser(ctx_user) == IF ctx_user = Absent THEN "anonymous" ELSE ctx_user

\* _update_user_profile(message, context), for a context that carries no
\* 'platform': the profiles after the call.  t is the context's 'timestamp',
\* or time.time() when it has none; target_id is its 'target_id' or Absent
UpdateUserProfile(profiles, ctx_user, t, target_id) ==
    LET user_id == ContextUser(ctx_user)
        profile == IF user_id \in DOMAIN profiles THEN profiles[user_id]
                   ELSE NewProfile
        updated == [message_count |-> profile.message_count + 1,
                    time_patterns |-> LastN(Append(profile.time_patterns, t),
                                            MaxTimePatterns),
                    last_activity |-> t,
                    platform_activity |-> profile.platform_activity + 1,
                    escalation_score |-> profile.escalation_score,
                    target_users |-> IF target_id = Absent
                                     THEN profile.target_users
                                     ELSE profile.target_users \cup {target_id}]
    IN  [k \in DOMAIN profiles \cup {user_id} |->
            IF k = user_id THEN updated ELSE profiles[k]]

\* ------------------------------------------------------ detector outputs
\* content_result.risk_score on its 0..100 scale
ContentRiskChoices == {0, 100}
\* sentiment_result.toxicity_score in percent
ToxicityChoices == {0, 100}
\* pattern_results: confidence in percent, severity 1..4
PatternChoices == {<<>>, <<[confidence |-> 80, severity |-> 3]>>}
\* context_result.risk_modifiers: intent_risk in tenths; platform_adjustment in
\* tenths, a key that is present only when the platform is a known one
NeutralContext ==
    [intent_risk |-> 10, platform_known |-> FALSE, platform_adjustment |-> 0]
ContextChoices ==
    {NeutralContext,
     [intent_risk |-> 6, platform_known |-> TRUE, platform_adjustment |-> 5]}

RECURSIVE MaxPatternRisk(_)
\* max over the matches of confidence * (severity / 4.0), starting from 0.0
MaxPatternRisk(pr) ==
    IF pr = <<>> THEN 0
    ELSE Max((Head(pr).confidence * Head(pr).severity * ONE) \div 400,
             MaxPatternRisk(Tail(pr)))

\* StreamProcessor._calculate_overall_risk
StreamOverallRisk(cr, tox, pr, ctx) ==
    LET risk_factors == <<(cr * ONE) \div 100, (tox * ONE) \div 100>>
                        \o (IF pr /= <<>> THEN <<MaxPatternRisk(pr)>> ELSE <<>>)
        pa == IF ctx.platform_known THEN 10 + ctx.platform_adjustment ELSE 10
        base_risk == SumSeq(risk_factors) \div Len(risk_factors)
    IN  Min(ONE, (base_risk * ctx.intent_risk * pa) \div 100)

\* the components whose call can raise inside _process_message's try block
\* (analyze_message_patterns catches its own errors)
RaisingComponents == {"content_detector", "sentiment_analyzer",
                      "context_analyzer", "rephrasing_engine"}

\* ---------------------------------------------------------- tier workers
\* deque(maxlen=n).append(x)
DequeAppend(s, x, n) == IF Len(s) >= n THEN Append(Tail(s), x) ELSE Append(s, x)

NoResult == [risk_score |-> 0, should_block |-> FALSE, is_abusive |-> FALSE,
             error |-> FALSE]

\* a retry test that lets one attempt too many through
ShouldRetryOffByOne(rc) == rc <= max_retry_attempts

\* the retry test of the except branch: retry_count < max_retry_attempts
ShouldRetry(rc) == rc < max_retry_attempts

\* _priority_worker: queue.get() and the first lines of _process_message
WorkerGet(p) ==
    /\ is_running
    /\ wpc[p] = "idle"
    /\ priority_queues[p] /= {}
    /\ LET m == QueueHead(p)
       IN  /\ priority_queues' = [priority_queues EXCEPT ![p] = @ \ {m}]
           /\ wcur' = [wcur EXCEPT ![p] = m]
           /\ wstart' = [wstart EXCEPT ![p] = now]
           /\ status' = [status EXCEPT ![m] = "processing"]
           /\ attempts' = [attempts EXCEPT ![m] = @ + 1]
    /\ wpc' = [wpc EXCEPT ![p] = "detect"]
    /\ UNCHANGED <<is_running, now, next_id, retry_count, priority, msg_user,
                   msg_ctx_user, rate_limits, callbacks, wresult,
                   processed_messages, blocked_messages, stats, fired,
                   last_add, accepted_at, user_profiles,
                   engine_vars, tracker_vars,
                   other_vars>>

\* _process_message, the try block runs to its end
ProcessSucceeds(p, cr, tox, pr, ctx) ==
    LET m == wcur[p]
        risk_score == StreamOverallRisk(cr, tox, pr, ctx)
        should_block == risk_score >= blocking_threshold
    IN  /\ wpc[p] = "detect"
        /\ user_profiles' = UpdateUserProfile(user_profiles, msg_ctx_user[m], now, Absent)
        /\ status' = [status EXCEPT ![m] =
                         IF should_block THEN "blocked" ELSE "completed"]
        /\ wresult' = [wresult EXCEPT ![p] =
                          [risk_score |-> risk_score,
                           should_block |-> should_block,
                           is_abusive |-> risk_score > abusive_threshold,
                           error |-> FALSE]]
        /\ wpc' = [wpc EXCEPT ![p] = "handle"]
        /\ UNCHANGED <<is_running, now, next_id, retry_count, priority,
                       msg_user, msg_ctx_user, priority_queues, rate_limits,
                       callbacks, wcur, wstart, processed_messages,
                       blocked_messages, stats, fired, last_add, attempts,
                       accepted_at,
                   engine_vars, tracker_vars,
                   other_vars>>

\* _process_message, a component raises: the except branch up to the retry test
ProcessRaises(p, component) ==
    LET m == wcur[p]
    IN  /\ wpc[p] = "detect"
        /\ user_profiles' =
              IF component \in {"context_analyzer", "rephrasing_engine"}
              THEN UpdateUserProfile(user_profiles, msg_ctx_user[m], now, Absent)
              ELSE user_profiles
        /\ status' = [status EXCEPT ![m] = "failed"]
        /\ retry_count' = [retry_count EXCEPT ![m] = @ + 1]
        /\ wresult' = [wresult EXCEPT ![p] =
                          [risk_score |-> 0, should_block |-> FALSE,
                           is_abusive |-> FALSE, error |-> TRUE]]
        /\ wpc' = [wpc EXCEPT ![p] =
                      IF ShouldRetry(retry_count[m] + 1) THEN "requeue"
                      ELSE "handle"]
        /\ UNCHANGED <<is_running, now, next_id, priority, msg_user,
                       msg_ctx_user, priority_queues, rate_limits, callbacks,
                       wcur, wstart, processed_messages, blocked_messages,
                       stats, fired, last_add, attempts, accepted_at,
                   engine_vars, tracker_vars,
                   other_vars>>

\* the except branch's priority_queues[LOW].put(...), which has no timeout
\* and waits while the LOW queue is full
Requeue(p) ==
    /\ wpc[p] = "requeue"
    /\ ~QueueFull("LOW")
    /\ priority_queues' = [priority_queues EXCEPT !["LOW"] = @ \cup {wcur[p]}]
    /\ wpc' = [wpc EXCEPT ![p] = "handle"]
    /\ UNCHANGED <<is_running, now, next_id, status, retry_count, priority,
                   msg_user, msg_ctx_user, rate_limits, callbacks, wcur,
                   wstart, wresult, processed_messages, blocked_messages,
                   stats, fired, last_add, attempts, accepted_at,
                   user_profiles,
                   engine_vars, tracker_vars,
                   other_vars>>

\* the callbacks _handle_processing_result triggers for a result
TriggeredEvents(result) ==
    {"on_message_processed"}
        \cup (IF result.should_block THEN {"on_message_blocked"} ELSE {})
        \cup (IF result.risk_score >= high_risk_threshold
              THEN {"on_high_risk_detected"} ELSE {})

\* _handle_processing_result and task_done
HandleProcessingResult(p) ==
    LET m == wcur[p]
        result == wresult[p]
    IN  /\ wpc[p] = "handle"
        /\ stats' = [messages_processed |-> stats.messages_processed + 1,
                     messages_blocked |-> stats.messages_blocked
                         + (IF result.should_block THEN 1 ELSE 0)]
        /\ blocked_messages' =
              IF result.should_block
              THEN DequeAppend(blocked_messages,
                       [message_id |-> m, risk_score |-> result.risk_score],
                       BlockedMaxLen)
              ELSE blocked_messages
        /\ processed_messages' =
              DequeAppend(processed_messages,
                  [message_id |-> m, risk_score |-> result.risk_score,
                   blocked |-> result.should_block], ProcessedMaxLen)
        /\ fired' = fired \cup
              {<<e, m>> : e \in {x \in TriggeredEvents(result) : callbacks[x] > 0}}
        /\ wpc' = [wpc EXCEPT ![p] = "idle"]
        /\ wcur' = [wcur EXCEPT ![p] = NoMsg]
        /\ wresult' = [wresult EXCEPT ![p] = NoResult]
        /\ UNCHANGED <<is_running, now, next_id, status, retry_count, priority,
                       msg_user, msg_ctx_user, priority_queues, rate_limits,
                       callbacks, wstart, last_add, attempts, accepted_at,
                       user_profiles,
                   engine_vars, tracker_vars,
                   other_vars>>

\* get_message_status(message_id): the first entry of processed_messages
\* with the id, else the first of blocked_messages, else None
GetMessageStatus(message_id) ==
    IF \E k \in 1..Len(processed_messages) :
          processed_messages[k].message_id = message_id
    THEN LET msg_data ==
                 processed_messages[CHOOSE k \in 1..Len(processed_messages) :
                     /\ processed_messages[k].message_id = message_id
                     /\ \A j \in 1..(k - 1) :
                           processed_messages[j].message_id /= message_id]
         IN  [status |-> "completed", risk_score |-> msg_data.risk_score,
              blocked |-> msg_data.blocked]
    ELSE IF \E k \in 1..Len(blocked_messages) :
               blocked_messages[k].message_id = message_id
    THEN LET msg_data ==
                 blocked_messages[CHOOSE k \in 1..Len(blocked_messages) :
                     /\ blocked_messages[k].message_id = message_id
                     /\ \A j \in 1..(k - 1) :
                           blocked_messages[j].message_id /= message_id]
         IN  [status |-> "blocked", risk_score |-> msg_data.risk_score,
              blocked |-> TRUE]
    ELSE [status |-> "None", risk_score |-> 0, blocked |-> FALSE]

\* ------------------------------------------------- TypeAwareEngine (direct)
AnalysisModes == {"REAL_TIME", "COMPREHENSIVE", "LIGHTWEIGHT"}

\* request.content by what the engine does with it: text it can analyse, the
\* empty string, a string over max_content_length, and a str holding a lone
\* surrogate, which str.encode() rejects
EngineContents == {"text", "empty", "too_long", "unencodable"}

\* the components analyze_content calls inside its try block, in call order
\* (analyze_message_patterns catches its own errors and is not among them)
EngineComponents == {"text_preprocessor", "content_detector",
                     "obfuscation_detector", "sentiment_analyzer",
                     "context_analyzer", "rephrasing_engine"}

\* obfuscation_analysis: confidence in percent
NoObfuscation == <<>>
\* the detector outputs of one call
QuietSignals ==
    [risk_score |-> 0, threats |-> FALSE, toxicity |-> 0, patterns |-> <<>>,
     context |-> NeutralContext, obfuscation |-> NoObfuscation]
SignalChoices ==
    {QuietSignals,
     [risk_score |-> 100, threats |-> TRUE, toxicity |-> 0, patterns |-> <<>>,
      context |-> NeutralContext, obfuscation |-> NoObfuscation],
     [risk_score |-> 100, threats |-> TRUE, toxicity |-> 100,
      patterns |-> <<[confidence |-> 80, severity |-> 3]>>,
      context |-> [intent_risk |-> 6, platform_known |-> TRUE,
                   platform_adjustment |-> 5],
      obfuscation |-> <<[confidence |-> 75]>>]}

NoRequest ==
    [user_id |-> Absent, ctx_user |-> Absent, content |-> "none",
     mode |-> "REAL_TIME", include_patterns |-> FALSE, raised |-> "none",
     signals |-> QuietSignals]

\* kind: "none" before the first call, "result" for a returned
\* AnalysisResponse, "raised" for an exception that left analyze_content
NoResponse ==
    [kind |-> "none", is_abusive |-> FALSE, risk_score |-> 0,
     risk_level |-> "UNKNOWN", should_block |-> FALSE, alerts |-> {},
     analysis_mode |-> "REAL_TIME", cached |-> FALSE]

\* _create_error_response
ErrorResponse ==
    [kind |-> "result", is_abusive |-> FALSE, risk_score |-> 0,
     risk_level |-> "UNKNOWN", should_block |-> FALSE,
     alerts |-> {"analysis_error"}, analysis_mode |-> "REAL_TIME",
     cached |-> FALSE]

\* an exception that leaves analyze_content: the caller gets no response
RaisedOutcome == [NoResponse EXCEPT !.kind = "raised"]

RECURSIVE MaxObfuscationRisk(_)
\* max over the matches of confidence * 0.8, starting from 0.0
MaxObfuscationRisk(obf) ==
    IF obf = <<>> THEN 0
    ELSE Max((Head(obf).confidence * 8 * ONE) \div 1000,
             MaxObfuscationRisk(Tail(obf)))

RECURSIVE SortedDesc(_)
\* sorted(risk_factors, reverse=True)
SortedDesc(s) ==
    IF s = <<>> THEN <<>>
    ELSE LET i == CHOOSE i \in 1..Len(s) : \A j \in 1..Len(s) : s[i] >= s[j]
         IN  <<s[i]>> \o SortedDesc([k \in 1..(Len(s) - 1) |->
                                        IF k < i THEN s[k] ELSE s[k + 1]])

\* the risk level of a final risk
RiskLevel(final_risk) ==
    IF final_risk >= (8 * ONE) \div 10 THEN "CRITICAL"
    ELSE IF final_risk >= (6 * ONE) \div 10 THEN "HIGH"
    ELSE IF final_risk >= (3 * ONE) \div 10 THEN "MEDIUM"
    ELSE IF final_risk > ONE \div 10 THEN "LOW"
    ELSE "MINIMAL"

\* a fusion of the same risk factors that averages them instead of weighting
\* them by rank
EngineOverallRiskAveraged(ran, sig) ==
    LET pattern_risk == MaxPatternRisk(sig.patterns)
        obfuscation_risk == MaxObfuscationRisk(sig.obfuscation)
        risk_factors ==
            (IF "content_detector" \in ran
             THEN <<(sig.risk_score * ONE) \div 100>> ELSE <<>>)
            \o (IF "sentiment_analyzer" \in ran
                THEN <<(sig.toxicity * ONE) \div 100>> ELSE <<>>)
            \o (IF pattern_risk > 0 THEN <<pattern_risk>> ELSE <<>>)
            \o (IF obfuscation_risk > 0 THEN <<obfuscation_risk>> ELSE <<>>)
        base_risk == SumSeq(risk_factors) \div Len(risk_factors)
        modifier == IF "context_analyzer" \in ran
                    THEN sig.context.intent_risk
                         * (IF sig.context.platform_known
                            THEN 50 + sig.context.platform_adjustment ELSE 50)
                    ELSE 500
    IN  IF risk_factors = <<>> THEN 0
        ELSE Min(ONE, (base_risk \div 500) * modifier)

\* TypeAwareEngine._calculate_overall_risk: the final risk.  `ran` holds the
\* components whose result is handed over (is not None)
EngineOverallRisk(ran, sig) ==
    LET pattern_risk == MaxPatternRisk(sig.patterns)
        obfuscation_risk == MaxObfuscationRisk(sig.obfuscation)
        risk_factors ==
            (IF "content_detector" \in ran
             THEN <<(sig.risk_score * ONE) \div 100>> ELSE <<>>)
            \o (IF "sentiment_analyzer" \in ran
                THEN <<(sig.toxicity * ONE) \div 100>> ELSE <<>>)
            \o (IF pattern_risk > 0 THEN <<pattern_risk>> ELSE <<>>)
            \o (IF obfuscation_risk > 0 THEN <<obfuscation_risk>> ELSE <<>>)
        sorted_risks == SortedDesc(risk_factors)
        rest == SubSeq(sorted_risks, 3, Len(sorted_risks))
        base_risk ==
            (IF Len(sorted_risks) >= 2
             THEN (sorted_risks[1] \div 10) * 6 + (sorted_risks[2] \div 10) * 4
             ELSE sorted_risks[1])
            + (IF Len(sorted_risks) > 2
               THEN SumSeq(rest) \div (10 * Len(rest)) ELSE 0)
        ctx == sig.context
        \* intent_risk * (1.0 + platform_adjustment * 0.2), in five-hundredths
        modifier == IF "context_analyzer" \in ran
                    THEN ctx.intent_risk
                         * (IF ctx.platform_known
                            THEN 50 + ctx.platform_adjustment ELSE 50)
                    ELSE 500
    IN  IF risk_factors = <<>> THEN 0
        ELSE Min(ONE, (base_risk \div 500) * modifier)

\* _generate_alerts: the types of the alerts raised.  The pattern alert
\* compares a PatternType member with a str and so is never raised.
GenerateAlerts(risk_score, ran, sig) ==
    (IF risk_score >= high_risk_threshold THEN {"high_risk_content"} ELSE {})
    \cup (IF "content_detector" \in ran /\ sig.threats
          THEN {"threat_detected"} ELSE {})
    \cup (IF sig.toxicity >= 90 THEN {"extreme_toxicity"} ELSE {})

\* _generate_cache_key, for content that encodes
CacheKey(content, ctx_user, mode) == <<content, ctx_user, mode>>

\* does analysis step `component` run for this request and risk?
ComponentRuns(component, mode, is_abusive) ==
    CASE component = "text_preprocessor" -> TRUE
      [] component = "content_detector" -> mode /= "LIGHTWEIGHT"
      [] component = "obfuscation_detector" -> mode = "COMPREHENSIVE"
      [] component = "sentiment_analyzer" -> TRUE
      [] component = "context_analyzer" -> mode = "COMPREHENSIVE"
      [] component = "rephrasing_engine" -> is_abusive

\* is the pattern analysis reached when `raised` is the component that fails?
PatternAnalysisRuns(mode, include_patterns, raised) ==
    /\ include_patterns
    /\ mode /= "LIGHTWEIGHT"
    /\ raised \in {"none", "context_analyzer", "rephrasing_engine"}

\* the analyses whose result reaches _calculate_overall_risk in a mode
Analyses(mode) ==
    {c \in {"content_detector", "sentiment_analyzer", "context_analyzer"} :
        ComponentRuns(c, mode, FALSE)}

\* the response of a run of the try block that reaches its end
AnalysisResult(mode, sig) ==
    LET ran == Analyses(mode)
        risk_score == EngineOverallRisk(ran, sig)
    IN  [kind |-> "result",
         is_abusive |-> risk_score >= suggestion_threshold,
         risk_score |-> risk_score,
         risk_level |-> RiskLevel(risk_score),
         should_block |-> risk_score >= blocking_threshold,
         alerts |-> GenerateAlerts(risk_score, ran, sig),
         analysis_mode |-> mode,
         cached |-> FALSE]

\* the signals a mode does not compute stay at their defaults
EffectiveSignals(mode, include_patterns, sig) ==
    [sig EXCEPT
        !.patterns = IF include_patterns /\ mode /= "LIGHTWEIGHT"
                     THEN @ ELSE <<>>,
        !.obfuscation = IF mode = "COMPREHENSIVE" THEN @ ELSE NoObfuscation]

\* analyze_content(request); `raised` names the component whose call raises,
\* "none" when every call returns
AnalyzeContent(user_id, ctx_user, content, mode, include_patterns, sig, raised) ==
    LET eff == EffectiveSignals(mode, include_patterns, sig)
        ok == AnalysisResult(mode, eff)
        key == CacheKey(content, ctx_user, mode)
        request == [user_id |-> user_id, ctx_user |-> ctx_user,
                    content |-> content, mode |-> mode,
                    include_patterns |-> include_patterns, raised |-> raised,
                    signals |-> eff]
        hit == analysis_cache /= <<>> /\ key \in DOMAIN analysis_cache
    IN  /\ calls < MaxAnalyses
        /\ calls' = calls + 1
        /\ last_request' = request
        /\ raised /= "none" =>
              /\ raised \in EngineComponents
              /\ ComponentRuns(raised, mode, ok.is_abusive)
        /\ IF content \in {"empty", "too_long"}
           THEN \* the length check returns the error response
                /\ raised = "none" /\ sig = QuietSignals
                /\ response' = ErrorResponse
                /\ UNCHANGED <<user_profiles, analysis_cache, total_analyses>>
           ELSE IF content = "unencodable"
           THEN \* request.content.encode() raises outside the try block
                /\ raised = "none" /\ sig = QuietSignals
                /\ response' = RaisedOutcome
                /\ UNCHANGED <<user_profiles, analysis_cache, total_analyses>>
           ELSE IF hit
           THEN /\ raised = "none" /\ sig = QuietSignals
                /\ response' = [analysis_cache[key] EXCEPT !.cached = TRUE]
                /\ UNCHANGED <<user_profiles, analysis_cache, total_analyses>>
           ELSE /\ user_profiles' =
                      IF PatternAnalysisRuns(mode, include_patterns, raised)
                      THEN UpdateUserProfile(user_profiles, ctx_user, now, Absent)
                      ELSE user_profiles
                /\ IF raised /= "none"
                   THEN /\ response' = ErrorResponse
                        /\ UNCHANGED <<analysis_cache, total_analyses>>
                   ELSE /\ response' = ok
                        /\ total_analyses' = total_analyses + 1
                        /\ analysis_cache' =
                              IF analysis_cache /= <<>>
                              THEN SetEntry(analysis_cache, key, ok)
                              ELSE analysis_cache
    /\ UNCHANGED <<stream_vars, tracker_vars, other_vars>>

\* --------------------------------- behavioral pattern tracker, called directly
Targets == {"t1", "t2"}
Conversations == {"c1"}

\* message texts, one per keyword list of the rules that read them, and one
\* that matches no rule
MessageTexts == {"you always lie", "i know where you live",
                 "nobody likes you", "hello"}

\* the 'keywords' of the REPETITIVE_HARASSMENT rule that match: its evidence
RepetitionEvidence(message) == IF message = "you always lie" THEN 1 ELSE 0
\* the 'stalking_indicators' of the CYBERSTALKING rule that match
StalkingEvidence(message) == IF message = "i know where you live" THEN 1 ELSE 0
\* the 'keywords' of the COORDINATED_BULLYING rule that match
CoordinationEvidence(message) == IF message = "nobody likes you" THEN 1 ELSE 0

\* _calculate_message_similarity(msg1, msg2) > similarity_threshold: the ratio
\* is 1.0 for equal texts and below 0.7 between any two of MessageTexts
Similar(msg1, msg2) == msg1 = msg2

\* the hours datetime.fromtimestamp(timestamp).hour can give, by the test
\* 22 <= hour or hour <= 6
Hours == {3, 12}
LateNight(hour) == 22 <= hour \/ hour <= 6

\* a context dict: Absent for a key it does not carry; has_timestamp says
\* whether it carries 'timestamp'
NoContext ==
    [message |-> "hello", user_id |-> Absent, target_id |-> Absent,
     conversation_id |-> Absent, has_timestamp |-> FALSE, timestamp |-> 0]

\* context.get('timestamp', time.time())
ContextTime(ctx) == IF ctx.has_timestamp THEN ctx.timestamp ELSE now

\* msg_context.get('timestamp', 0): the epoch lies ClockOrigin before the
\* moment the model's clock reads 0
StoredTime(entry) ==
    IF entry.has_timestamp THEN entry.timestamp ELSE 0 - ClockOrigin

\* the number of entries t of a timestamp list with timestamp - t < window
RECURSIVE CountRecent(_, _, _)
CountRecent(times, timestamp, window) ==
    IF times = <<>> THEN 0
    ELSE (IF timestamp - Head(times) < window THEN 1 ELSE 0)
         + CountRecent(Tail(times), timestamp, window)

\* a PatternMatch: its type, its confidence in percent and the check that
\* made it
Match(type, confidence, origin) ==
    [pattern_type |-> type, confidence |-> confidence, origin |-> origin]

\* _check_repetitive_harassment, on the profiles as updated by this call
CheckRepetitiveHarassment(profiles, ctx) ==
    LET user_id == ContextUser(ctx.user_id)
        evidence == RepetitionEvidence(ctx.message)
        recent_messages ==
            CountRecent(profiles[user_id].time_patterns, ContextTime(ctx),
                        MediumWindow)
    IN  IF ctx.target_id = Absent \/ user_id \notin DOMAIN profiles THEN {}
        ELSE IF recent_messages >= min_occurrences /\ evidence > 0
        THEN {Match("REPETITIVE_HARASSMENT",
                    Min(90, recent_messages * 10 + evidence * 20),
                    "_check_repetitive_harassment")}
        ELSE {}

\* the other users with a similar message in the conversation's short window
Participants(history, ctx) ==
    {ContextUser(history[i].user_id) : i \in
        {j \in 1..Len(history) :
            /\ ContextTime(ctx) - StoredTime(history[j]) < ShortWindow
            /\ ContextUser(history[j].user_id) /= ContextUser(ctx.user_id)
            /\ Similar(ctx.message, history[j].message)}}

\* _check_coordinated_bullying, on the conversation before this message is
\* stored in it
CheckCoordinatedBullying(conversations, ctx) ==
    LET history == IF ctx.conversation_id \in DOMAIN conversations
                   THEN conversations[ctx.conversation_id] ELSE <<>>
        participants == Participants(history, ctx)
        evidence == CoordinationEvidence(ctx.message)
    IN  IF ctx.conversation_id = Absent THEN {}
        ELSE IF /\ Cardinality(participants) >= min_participants
                /\ (evidence > 0 \/ Cardinality(participants) > 0)
        THEN {Match("COORDINATED_BULLYING",
                    Min(90, Cardinality(participants) * 20 + evidence * 20),
                    "_check_coordinated_bullying")}
        ELSE {}

\* _check_cyberstalking, on the profiles as updated by this call
CheckCyberstalking(profiles, ctx) ==
    LET user_id == ContextUser(ctx.user_id)
        evidence == StalkingEvidence(ctx.message)
        recent_contacts ==
            CountRecent(profiles[user_id].time_patterns, ContextTime(ctx),
                        LongWindow)
    IN  IF /\ evidence > 0
           /\ user_id \in DOMAIN profiles
           /\ ctx.target_id /= Absent
           /\ ctx.target_id \in profiles[user_id].target_users
           /\ recent_contacts >= frequency_threshold
        THEN {Match("CYBERSTALKING",
                    Min(90, evidence * 30 + recent_contacts * 10),
                    "_check_cyberstalking")}
        ELSE {}

\* _analyze_temporal_patterns, on the profiles as updated by this call
AnalyzeTemporalPatterns(profiles, ctx, hour) ==
    LET user_id == ContextUser(ctx.user_id)
        recent_activity ==
            CountRecent(profiles[user_id].time_patterns, ContextTime(ctx),
                        ShortWindow)
    IN  IF user_id \notin DOMAIN profiles THEN {}
        ELSE (IF recent_activity >= SpikeCount
              THEN {Match("REPETITIVE_HARASSMENT", 70,
                          "_analyze_temporal_patterns")}
              ELSE {})
             \cup
             (IF LateNight(hour) /\ recent_activity >= late_night_count
              THEN {Match("CYBERSTALKING", 50, "_analyze_temporal_patterns")}
              ELSE {})

\* the entry _analyze_conversation_context stores: (message, context).
\* stored_at is no field of the program: it remembers the clock at the
\* moment of storing, for the properties that speak of it.
HistoryEntry(ctx) ==
    [message |-> ctx.message, user_id |-> ctx.user_id,
     has_timestamp |-> ctx.has_timestamp, timestamp |-> ctx.timestamp,
     stored_at |-> now]

\* _analyze_conversation_context: the history after the call.  None of
\* MessageTexts holds an escalation keyword, so the call returns no match.
StoreInConversation(conversations, ctx) ==
    IF ctx.conversation_id = Absent THEN conversations
    ELSE LET old == IF ctx.conversation_id \in DOMAIN conversations
                    THEN conversations[ctx.conversation_id] ELSE <<>>
         IN  SetEntry(conversations, ctx.conversation_id,
                      LastN(Append(old, HistoryEntry(ctx)), MaxConversationLen))

\* what sent_log remembers of a call; the log is no state of the program
LogEntry(ctx) ==
    [user_id |-> ContextUser(ctx.user_id), target_id |-> ctx.target_id,
     conversation_id |-> ctx.conversation_id, message |-> ctx.message,
     time |-> ContextTime(ctx)]

\* analyze_message_patterns(message, context).  None of MessageTexts matches
\* a rule of the five pattern types that are not modelled; those checks
\* change no state.
AnalyzeMessagePatterns(ctx, hour) ==
    LET profiles == UpdateUserProfile(user_profiles, ctx.user_id,
                                      ContextTime(ctx), ctx.target_id)
    IN  /\ tcalls < MaxTrackerCalls
        /\ tcalls' = tcalls + 1
        /\ user_profiles' = profiles
        /\ last_patterns' =
              CheckRepetitiveHarassment(profiles, ctx)
              \cup CheckCoordinatedBullying(conversation_history, ctx)
              \cup CheckCyberstalking(profiles, ctx)
              \cup AnalyzeTemporalPatterns(profiles, ctx, hour)
        /\ conversation_history' = StoreInConversation(conversation_history, ctx)
        /\ last_context' = ctx
        /\ sent_log' = Append(sent_log, LogEntry(ctx))
        /\ UNCHANGED <<stream_vars, engine_vars, other_vars>>

\* ------------------------------------------------ update_escalation_score
\* escalation_score 1.0, in thousandths
EscalationOne == 1000

\* decay_rate = 0.1 / (24 * 3600) per second, in thousandths per tick of the
\* tracker's clock, which ticks once a day here
DecayPerTick == 100

\* the pattern_matches lists handed to update_escalation_score: none, one of
\* a type that does not count, one and two that count, and enough to pass 1.0
EscalationMatches ==
    {<<>>,
     <<Match("REPETITIVE_HARASSMENT", 70, "text")>>,
     <<Match("CYBERSTALKING", 80, "text")>>,
     <<Match("ESCALATING_THREATS", 90, "text"), Match("CYBERSTALKING", 80, "text")>>,
     [k \in 1..12 |-> Match("ESCALATING_THREATS", 100, "text")]}

\* sum of match.confidence * 0.1 over the threat and stalking matches, in
\* thousandths (a confidence is in percent)
RECURSIVE EscalationIncrease(_)
EscalationIncrease(pattern_matches) ==
    IF pattern_matches = <<>> THEN 0
    ELSE (IF Head(pattern_matches).pattern_type
                \in {"ESCALATING_THREATS", "CYBERSTALKING"}
          THEN Head(pattern_matches).confidence ELSE 0)
         + EscalationIncrease(Tail(pattern_matches))

\* the score update_escalation_score leaves: the increase clamped to 1.0,
\* then the decay for current_time - last_activity clamped to 0.0; no decay
\* when last_activity is None or 0.0
EscalatedScore(profile, escalation_increase, current_time) ==
    LET increased == Min(EscalationOne, profile.escalation_score + escalation_increase)
    IN  IF profile.last_activity \in {-1, 0} THEN increased
        ELSE Max(0, increased - DecayPerTick * (current_time - profile.last_activity))

NoEscalationCall ==
    [user_id |-> Absent, time |-> 0, increase |-> 0, last_activity |-> -1,
     known |-> FALSE]

\* update_escalation_score(user_id, pattern_matches)
UpdateEscalationScore(user_id, pattern_matches) ==
    /\ ecalls < MaxEscalationCalls
    /\ ecalls' = ecalls + 1
    /\ last_escalation' =
          [user_id |-> user_id, time |-> now,
           increase |-> EscalationIncrease(pattern_matches),
           last_activity |-> IF user_id \in DOMAIN user_profiles
                             THEN user_profiles[user_id].last_activity ELSE -1,
           known |-> user_id \in DOMAIN user_profiles]
    /\ user_profiles' =
          IF user_id \in DOMAIN user_profiles
          THEN [user_profiles EXCEPT ![user_id].escalation_score =
                   EscalatedScore(user_profiles[user_id],
                                  EscalationIncrease(pattern_matches), now)]
          ELSE user_profiles
    /\ UNCHANGED <<stream_vars, engine_vars, tracker_vars, update_vars,
                   detector_vars, fusion_vars, obfuscation_vars>>

\* time passing between two calls of the tracker
Elapse ==
    /\ now < MaxTrackerTime
    /\ now' = now + 1
    /\ UNCHANGED <<is_running, next_id, status, retry_count, priority,
                   msg_user, msg_ctx_user, priority_queues, rate_limits,
                   callbacks, wpc, wcur, wstart, wresult, processed_messages,
                   blocked_messages, stats, fired, last_add, attempts,
                   accepted_at, user_profiles, engine_vars, tracker_vars,
                   other_vars>>

\* [t for t in times if current_time - t < retention_seconds]
RECURSIVE KeepRecent(_, _)
KeepRecent(times, current_time) ==
    IF times = <<>> THEN <<>>
    ELSE (IF current_time - Head(times) < RetentionSeconds
          THEN <<Head(times)>> ELSE <<>>)
         \o KeepRecent(Tail(times), current_time)

\* the messages of a history whose stored time is inside the retention window
RECURSIVE KeepRecentEntries(_, _)
KeepRecentEntries(history, current_time) ==
    IF history = <<>> THEN <<>>
    ELSE (IF current_time - StoredTime(Head(history)) < RetentionSeconds
          THEN <<Head(history)>> ELSE <<>>)
         \o KeepRecentEntries(Tail(history), current_time)

\* does the sweep delete this profile?  (a last_activity of None is falsy)
ProfileExpired(profile, current_time) ==
    /\ profile.last_activity /= -1
    /\ current_time - profile.last_activity > RetentionSeconds

\* cleanup_old_data(), with the default retention
CleanupOldData ==
    LET kept_users == {u \in DOMAIN user_profiles :
                          ~ProfileExpired(user_profiles[u], now)}
        kept_convs == {c \in DOMAIN conversation_history :
                          KeepRecentEntries(conversation_history[c], now) /= <<>>}
    IN  /\ user_profiles' =
              [u \in kept_users |->
                  [user_profiles[u] EXCEPT
                      !.time_patterns = KeepRecent(@, now)]]
        /\ conversation_history' =
              [c \in kept_convs |->
                  KeepRecentEntries(conversation_history[c], now)]
        /\ UNCHANGED <<stream_vars, engine_vars, tcalls, last_context,
                       last_patterns, sent_log, other_vars>>

\* ------------------------------ _update_user_profile, thread by thread
\* The tier workers are four threads that call the one PatternAnalyzer with
\* no lock.  A thread can be descheduled between the membership test and the
\* store of the new profile (the constructor call lies between them); the
\* rest of the function is taken as one step, which favours the code.
NoUpdate == [user_id |-> "anonymous", timestamp |-> 0, absent |-> FALSE]

UpdatesStarted ==
    LET inside == {p \in MessagePriority : upc[p] /= "idle"}
        RECURSIVE Total(_)
        Total(keys) == IF keys = {} THEN 0
                       ELSE LET k == CHOOSE x \in keys : TRUE
                            IN  ucount[k] + Total(keys \ {k})
    IN  Cardinality(inside) + Total(ProfileKeys)

\* user_id = context.get('user_id', 'anonymous') ...
\* if user_id not in self.user_profiles:
UpdateTestMembership(p, ctx_user) ==
    /\ upc[p] = "idle"
    /\ UpdatesStarted < MaxUpdates
    /\ ulocal' = [ulocal EXCEPT ![p] =
                     [user_id |-> ContextUser(ctx_user), timestamp |-> now,
                      absent |-> ContextUser(ctx_user) \notin DOMAIN user_profiles]]
    /\ upc' = [upc EXCEPT ![p] =
                 IF ContextUser(ctx_user) \notin DOMAIN user_profiles
                 THEN "create" ELSE "update"]
    /\ UNCHANGED <<stream_vars, user_profiles, engine_vars, tracker_vars,
                   ucount, detector_vars, fusion_vars, escalation_vars, obfuscation_vars>>

\* self.user_profiles[user_id] = UserBehaviorProfile(user_id=user_id)
UpdateStoreNewProfile(p) ==
    /\ upc[p] = "create"
    /\ user_profiles' = SetEntry(user_profiles, ulocal[p].user_id, NewProfile)
    /\ upc' = [upc EXCEPT ![p] = "update"]
    /\ UNCHANGED <<stream_vars, engine_vars, tracker_vars, ulocal, ucount,
                   detector_vars, fusion_vars, escalation_vars, obfuscation_vars>>

\* profile = self.user_profiles[user_id] ... to the end of the function
UpdateProfileFields(p) ==
    /\ upc[p] = "update"
    /\ user_profiles' = UpdateUserProfile(user_profiles, ulocal[p].user_id,
                                          ulocal[p].timestamp, Absent)
    /\ ucount' = [ucount EXCEPT ![ulocal[p].user_id] = @ + 1]
    /\ upc' = [upc EXCEPT ![p] = "idle"]
    /\ ulocal' = [ulocal EXCEPT ![p] = NoUpdate]
    /\ UNCHANGED <<stream_vars, engine_vars, tracker_vars, detector_vars,
                   fusion_vars, escalation_vars, obfuscation_vars>>

\* ------------------------------------------ category detector: matching
\* Confidences are integers, 1.0 being ConfidenceOne; an aggregate score is in
\* hundredths of a point (100.0 is 10000), rounded down where the code rounds
\* to two decimals.  A str is handled as the tuple of its characters.
ConfidenceOne == 10000

\* the characters of a str of the model
Letters(s) ==
    CASE s = "You" -> <<"Y", "o", "u">>
      [] s = "are" -> <<"a", "r", "e">>
      [] s = "such" -> <<"s", "u", "c", "h">>
      [] s = "an" -> <<"a", "n">>
      [] s = "idiot!" -> <<"i", "d", "i", "o", "t", "!">>
      [] s = "1d10t!" -> <<"1", "d", "1", "0", "t", "!">>
      [] s = "you" -> <<"y", "o", "u">>
      [] s = "idiots" -> <<"i", "d", "i", "o", "t", "s">>
      [] s = "Kill" -> <<"K", "i", "l", "l">>
      [] s = "yourself" -> <<"y", "o", "u", "r", "s", "e", "l", "f">>
      [] s = "this" -> <<"t", "h", "i", "s">>
      [] s = "is" -> <<"i", "s">>
      [] s = "fooo" -> <<"f", "o", "o", "o">>
      [] s = "bar" -> <<"b", "a", "r">>
      [] s = "good" -> <<"g", "o", "o", "d">>
      [] s = "day" -> <<"d", "a", "y">>
      [] s = "thank" -> <<"t", "h", "a", "n", "k">>
      [] s = "nice" -> <<"n", "i", "c", "e">>
      [] s = "see" -> <<"s", "e", "e">>
      [] s = "tomorrow" -> <<"t", "o", "m", "o", "r", "r", "o", "w">>
      [] s = "i" -> <<"i">>
      [] s = "will" -> <<"w", "i", "l", "l">>
      [] s = "kill" -> <<"k", "i", "l", "l">>
      [] s = "idiot" -> <<"i", "d", "i", "o", "t">>
      [] s = "stupid" -> <<"s", "t", "u", "p", "i", "d">>
      [] s = "shoot" -> <<"s", "h", "o", "o", "t">>
      [] s = "racist" -> <<"r", "a", "c", "i", "s", "t">>
      [] s = "buy now" -> <<"b", "u", "y", " ", "n", "o", "w">>
      [] s = "ugly" -> <<"u", "g", "l", "y">>
      [] s = "loser" -> <<"l", "o", "s", "e", "r">>
      [] s = "hot" -> <<"h", "o", "t">>
      [] s = "hello" -> <<"h", "e", "l", "l", "o">>
      [] s = "h3ll0" -> <<"h", "3", "l", "l", "0">>
      [] s = "s t u p i d" -> <<"s", " ", "t", " ", "u", " ", "p", " ", "i", " ", "d">>
      [] s = "i-d-i-o-t" -> <<"i", "-", "d", "-", "i", "-", "o", "-", "t">>
      [] s = "normal" -> <<"n", "o", "r", "m", "a", "l">>
      [] s = "test" -> <<"t", "e", "s", "t">>
      [] s = "tet3stest" -> <<"t", "e", "t", "3", "s", "t", "e", "s", "t">>
      [] s = "1d10t" -> <<"1", "d", "1", "0", "t">>
      [] s = "h3llo" -> <<"h", "3", "l", "l", "o">>
      [] s = "he11o" -> <<"h", "e", "1", "1", "o">>
      [] s = "h311o" -> <<"h", "3", "1", "1", "o">>
      [] s = "he1lo" -> <<"h", "e", "1", "l", "o">>
      [] s = "5tupid" -> <<"5", "t", "u", "p", "i", "d">>
      [] s = "stup1d" -> <<"s", "t", "u", "p", "1", "d">>
      [] s = "stup!d" -> <<"s", "t", "u", "p", "!", "d">>
      [] s = "5tup1d" -> <<"5", "t", "u", "p", "1", "d">>
      [] s = "1diot" -> <<"1", "d", "i", "o", "t">>
      [] s = "id!ot" -> <<"i", "d", "!", "o", "t">>
      [] s = "id10t" -> <<"i", "d", "1", "0", "t">>

\* str.lower(), for the capitals that occur in the texts
Lower(c) == CASE c = "Y" -> "y" [] c = "K" -> "k" [] OTHER -> c

\* obfuscation_map of _preprocess_text
ObfuscationMap(c) ==
    CASE c = "@" -> "a" [] c = "3" -> "e" [] c = "1" -> "i" [] c = "0" -> "o"
      [] c = "5" -> "s" [] c = "$" -> "s" [] c = "4" -> "a" [] c = "7" -> "t"
      [] c = "+" -> "t" [] OTHER -> c

\* the characters of the texts that [^\w\s] matches
Punctuation == {"!", "-", ".", "'", ",", "?"}

\* one character through lower(), the obfuscation map and re.sub(r'[^\w\s]', ' ')
PreprocessChar(c) ==
    LET mapped == ObfuscationMap(Lower(c))
    IN  IF mapped \in Punctuation THEN " " ELSE mapped

RECURSIVE SplitWords(_, _)
\* str.split() of a character tuple; `word` is the word being read
SplitWords(chars, word) ==
    IF chars = <<>> THEN (IF word = <<>> THEN <<>> ELSE <<word>>)
    ELSE IF Head(chars) = " "
         THEN (IF word = <<>> THEN <<>> ELSE <<word>>)
              \o SplitWords(Tail(chars), <<>>)
         ELSE SplitWords(Tail(chars), Append(word, Head(chars)))

RECURSIVE Concat(_)
\* the concatenation of a list of lists
Concat(lists) == IF lists = <<>> THEN <<>> ELSE Head(lists) \o Concat(Tail(lists))

\* the texts handed to detect_abusive_content.  Two stand for texts longer
\* than 100 characters that share their first 100; NotAString stands for an
\* argument that is not a str
LongClean == "hundred shared characters, then: see you tomorrow"
LongThreat == "hundred shared characters, then: i will kill you"
EmptyText == ""
NotAString == "<None>"
IdiotText == "You are such an idiot!"

\* text.split(), for the texts of the model
Tokens(text) ==
    CASE text = LongClean -> <<"nice", "day", "see", "you", "tomorrow">>
      [] text = LongThreat -> <<"nice", "day", "i", "will", "kill", "you">>
      [] text = "good day" -> <<"good", "day">>
      [] text = "thank you" -> <<"thank", "you">>
      [] text = IdiotText -> <<"You", "are", "such", "an", "idiot!">>
      [] text = "You are such an 1d10t!" -> <<"You", "are", "such", "an", "1d10t!">>
      [] text = "you idiots" -> <<"you", "idiots">>
      [] text = "Kill yourself" -> <<"Kill", "yourself">>
      [] text = "this is fooo bar" -> <<"this", "is", "fooo", "bar">>
      [] OTHER -> <<>>

\* _preprocess_text(text).split(): the words the word lists are matched on
PreprocessText(text) ==
    Concat([t \in 1..Len(Tokens(text)) |->
               LET chars == Letters(Tokens(text)[t])
               IN  SplitWords([i \in 1..Len(chars) |-> PreprocessChar(chars[i])],
                              <<>>)])

\* a regular expression that re.compile rejects
Malformed == "(unclosed"

\* re.finditer(pattern, text, re.IGNORECASE): the matched substrings, for the
\* patterns and the texts of the model
RegexMatches(pattern, text) ==
    CASE pattern = "kill\\s+yourself" /\ text = "Kill yourself"
            -> <<"Kill yourself">>
      [] pattern = "i\\s+will\\s+(kill|hurt|harm|destroy)" /\ text = LongThreat
            -> <<"i will kill">>
      [] pattern = "foo+" /\ text = "this is fooo bar" -> <<"fooo">>
      [] OTHER -> <<>>

\* SeverityLevel
SeverityLevel == [LOW |-> 1, MEDIUM |-> 2, HIGH |-> 3, CRITICAL |-> 4]

\* _initialize_patterns: the six categories in dict order, with the words and
\* the patterns that bear on the texts of the model
InitialPatterns ==
    <<[category |-> "harassment", words |-> <<"idiot", "stupid", "loser">>,
       patterns |-> <<"you\\s+(are|r)\\s+(so\\s+)?(stupid|dumb|idiotic|pathetic)",
                      "kill\\s+yourself">>,
       severity |-> SeverityLevel.HIGH],
      [category |-> "hate_speech", words |-> <<"racist">>, patterns |-> <<>>,
       severity |-> SeverityLevel.CRITICAL],
      [category |-> "spam", words |-> <<"buy now">>, patterns |-> <<>>,
       severity |-> SeverityLevel.LOW],
      [category |-> "threats", words |-> <<"kill", "shoot">>,
       patterns |-> <<"i\\s+will\\s+(kill|hurt|harm|destroy)">>,
       severity |-> SeverityLevel.CRITICAL],
      [category |-> "cyberbullying", words |-> <<"ugly", "loser">>,
       patterns |-> <<>>, severity |-> SeverityLevel.HIGH],
      [category |-> "sexual_harassment", words |-> <<"hot">>, patterns |-> <<>>,
       severity |-> SeverityLevel.HIGH]>>

RECURSIVE CommonRun(_, _, _, _)
\* the length of the longest common run of a[i..] and b[j..]
CommonRun(a, b, i, j) ==
    IF i > Len(a) \/ j > Len(b) THEN 0
    ELSE IF a[i] /= b[j] THEN 0
    ELSE 1 + CommonRun(a, b, i + 1, j + 1)

\* SequenceMatcher.find_longest_match on two words: the longest block, the
\* earliest in a among the longest, the earliest in b among those
FindLongestMatch(a, b) ==
    LET blocks == {<<i, j>> \in (1..Len(a)) \X (1..Len(b)) : a[i] = b[j]}
        size == [blk \in blocks |-> CommonRun(a, b, blk[1], blk[2])]
        longest == CHOOSE n \in {size[blk] : blk \in blocks} :
                      \A blk \in blocks : size[blk] <= n
        best == CHOOSE x \in blocks :
                   /\ size[x] = longest
                   /\ \A y \in blocks :
                         size[y] = longest =>
                            \/ x[1] < y[1]
                            \/ x[1] = y[1] /\ x[2] <= y[2]
    IN  IF blocks = {} THEN [a |-> 0, b |-> 0, size |-> 0]
        ELSE [a |-> best[1], b |-> best[2], size |-> longest]

RECURSIVE MatchingCharacters(_, _)
\* SequenceMatcher.get_matching_blocks, summed: the longest block, then the
\* same to its left and to its right
MatchingCharacters(a, b) ==
    LET m == FindLongestMatch(a, b)
    IN  IF m.size = 0 THEN 0
        ELSE m.size
             + MatchingCharacters(SubSeq(a, 1, m.a - 1), SubSeq(b, 1, m.b - 1))
             + MatchingCharacters(SubSeq(a, m.a + m.size, Len(a)),
                                  SubSeq(b, m.b + m.size, Len(b)))

\* _calculate_similarity: SequenceMatcher(None, str1, str2).ratio()
CalculateSimilarity(str1, str2) ==
    IF Len(str1) + Len(str2) = 0 THEN ConfidenceOne
    ELSE (2 * MatchingCharacters(str1, str2) * ConfidenceOne)
            \div (Len(str1) + Len(str2))

\* _fuzzy_match with threshold 0.8
FuzzyMatch(str1, str2) ==
    /\ Len(str1) >= 3
    /\ Len(str2) >= 3
    /\ 10 * CalculateSimilarity(str1, str2) >= 8 * ConfidenceOne

\* _detect_words: what one word of the list gives on one word of the text
WordDetection(text_word, word, i, category, severity) ==
    IF text_word = Letters(word)
    THEN <<[detection_type |-> "word", category |-> category,
            severity |-> severity, match |-> word, position |-> i,
            confidence |-> ConfidenceOne, method |-> "exact"]>>
    ELSE IF FuzzyMatch(text_word, Letters(word))
    THEN <<[detection_type |-> "word", category |-> category,
            severity |-> Max(1, severity - 1), match |-> word, position |-> i,
            confidence |-> CalculateSimilarity(text_word, Letters(word)),
            method |-> "fuzzy"]>>
    ELSE <<>>

\* _detect_words
DetectWords(text_words, words, category, severity) ==
    Concat([w \in 1..Len(words) |->
        Concat([i \in 1..Len(text_words) |->
            WordDetection(text_words[i], words[w], i - 1, category, severity)])])

\* _detect_patterns; a pattern that does not compile is skipped
DetectPatterns(text, patterns, category, severity) ==
    Concat([k \in 1..Len(patterns) |->
        IF patterns[k] = Malformed THEN <<>>
        ELSE [m \in 1..Len(RegexMatches(patterns[k], text)) |->
                 [detection_type |-> "pattern", category |-> category,
                  severity |-> severity,
                  match |-> RegexMatches(patterns[k], text)[m],
                  position |-> 0, confidence |-> (9 * ConfidenceOne) \div 10,
                  method |-> "regex"]]])

\* a context: its 'platform' ("none" when the key is absent) and what its
\* 'user_history' says ("none" when the key is absent)
NoDetectContext == [platform |-> "none", user_history |-> "none"]
DetectContexts ==
    [platform : {"none", "twitter", "linkedin", "gaming"},
     user_history : {"none", "repeat_offender", "false_positives"}]

\* _adjust_for_context on one detection
AdjustDetection(detection, context) ==
    LET platform_severity ==
            IF context.platform = "twitter" /\ detection.category = "harassment"
            THEN Max(1, (detection.severity * 8) \div 10)
            ELSE IF context.platform = "linkedin"
            THEN Min(4, (detection.severity * 12) \div 10)
            ELSE IF /\ context.platform = "gaming"
                    /\ detection.category \in {"harassment", "cyberbullying"}
            THEN Max(1, (detection.severity * 7) \div 10)
            ELSE detection.severity
    IN  [detection EXCEPT
            !.severity = IF context.user_history = "repeat_offender"
                         THEN Min(4, platform_severity + 1)
                         ELSE platform_severity,
            !.confidence = IF context.user_history = "false_positives"
                           THEN (@ * 8) \div 10 ELSE @]

\* _adjust_for_context: an empty context leaves the detections as they are
AdjustForContext(detections, context) ==
    IF context = NoDetectContext THEN detections
    ELSE [k \in 1..Len(detections) |-> AdjustDetection(detections[k], context)]

\* _detect_category
DetectCategory(text, config, context) ==
    AdjustForContext(
        DetectWords(PreprocessText(text), config.words, config.category,
                    config.severity)
        \o DetectPatterns(text, config.patterns, config.category,
                          config.severity),
        context)

\* _create_empty_result
EmptyResult ==
    [is_abusive |-> FALSE, risk_score |-> 0, risk_level |-> "NONE",
     detections |-> <<>>]

\* sum(d.severity * d.confidence for d in detections)
TotalSeverity(detections) ==
    SumSeq([k \in 1..Len(detections) |->
               detections[k].severity * detections[k].confidence])

\* an aggregate score that leaves the detection density out
CalculateRiskScoreWithoutDensity(detections, text) ==
    LET final_score == Min(100 * 100,
                           TotalSeverity(detections) \div (Len(detections) * 4))
    IN  IF detections = <<>> THEN EmptyResult
        ELSE [is_abusive |-> TotalSeverity(detections) > 0,
              risk_score |-> final_score,
              risk_level |-> IF final_score >= 80 * 100 THEN "CRITICAL"
                             ELSE IF final_score >= 60 * 100 THEN "HIGH"
                             ELSE IF final_score >= 30 * 100 THEN "MEDIUM"
                             ELSE IF TotalSeverity(detections) > 0 THEN "LOW"
                             ELSE "NONE",
              detections |-> detections]

\* _calculate_risk_score.  The density multiplier min(1.5, 1 + 2 * density)
\* is the fraction (text_length + 2 * count) / text_length, at most 3 / 2
CalculateRiskScore(detections, text) ==
    LET count == Len(detections)
        text_length == Len(Tokens(text))
        uncapped == text_length = 0 \/ 2 * (text_length + 2 * count) <= 3 * text_length
        numerator == IF text_length = 0 THEN 1
                     ELSE IF uncapped THEN text_length + 2 * count ELSE 3
        denominator == IF text_length = 0 THEN 1
                       ELSE IF uncapped THEN text_length ELSE 2
        final_score == Min(100 * 100,
                           (TotalSeverity(detections) * numerator)
                              \div (count * 4 * denominator))
    IN  IF detections = <<>> THEN EmptyResult
        ELSE [is_abusive |-> TotalSeverity(detections) > 0,
              risk_score |-> final_score,
              risk_level |-> IF final_score >= 80 * 100 THEN "CRITICAL"
                             ELSE IF final_score >= 60 * 100 THEN "HIGH"
                             ELSE IF final_score >= 30 * 100 THEN "MEDIUM"
                             ELSE IF TotalSeverity(detections) > 0 THEN "LOW"
                             ELSE "NONE",
              detections |-> detections]

\* detect_abusive_content past the cache test: every category of the
\* taxonomy, then the aggregate
RunDetection(text, context, taxonomy) ==
    CalculateRiskScore(
        Concat([c \in 1..Len(taxonomy) |->
                   DetectCategory(text, taxonomy[c], context)]),
        text)

\* ------------------------------------- ContentDetectionEngine and its cache
\* the texts of the callers that exercise the cache
DetectTexts == {LongClean, LongThreat, "good day", "thank you", IdiotText}

\* text[:100]
First100(text) ==
    IF text \in {LongClean, LongThreat} THEN "hundred shared characters"
    ELSE text

\* _generate_cache_key(text, context)
GenerateCacheKey(text, context) == <<First100(text), context>>

NoDetect ==
    [text |-> "", context |-> NoDetectContext,
     cache_key |-> <<"", NoDetectContext>>, result |-> EmptyResult,
     oldest_key |-> <<"", NoDetectContext>>]

\* the latest detect_abusive_content call that returned (kept for the
\* properties, not program state)
NoDetectCall ==
    [kind |-> "none", text |-> "", context |-> NoDetectContext,
     result |-> EmptyResult]

DetectReturned(text, context, result) ==
    [kind |-> "returned", text |-> text, context |-> context, result |-> result]

CacheKeys(cache) == {cache[i].key : i \in 1..Len(cache)}

CacheLookup(cache, key) ==
    cache[CHOOSE i \in 1..Len(cache) : cache[i].key = key].result

\* del cache[key]
CacheDelete(cache, key) ==
    SelectSeq(cache, LAMBDA entry : entry.key /= key)

\* cache[key] = result: a new key goes last, an old one keeps its place
CacheStore(cache, key, result) ==
    IF key \in CacheKeys(cache)
    THEN [i \in 1..Len(cache) |->
             IF cache[i].key = key
             THEN [key |-> key, result |-> result] ELSE cache[i]]
    ELSE Append(cache, [key |-> key, result |-> result])

\* detect_abusive_content up to the cache test: an empty or non-str text
\* returns the empty result, a hit returns the cached result, a miss goes on
\* to run the category detectors
DetectLookup(p, text, context) ==
    /\ dpc[p] = "idle"
    /\ dcalls < MaxDetectCalls
    /\ dcalls' = dcalls + 1
    /\ IF text \in {EmptyText, NotAString}
       THEN /\ returned' = returned \cup {<<text, context, 0>>}
            /\ last_detect' = DetectReturned(text, context, EmptyResult)
            /\ UNCHANGED <<dpc, dlocal>>
       ELSE IF GenerateCacheKey(text, context) \in CacheKeys(detection_cache)
       THEN LET cached_result ==
                    CacheLookup(detection_cache, GenerateCacheKey(text, context))
            IN  /\ returned' = returned \cup
                       {<<text, context, cached_result.risk_score>>}
                /\ last_detect' = DetectReturned(text, context, cached_result)
                /\ UNCHANGED <<dpc, dlocal>>
       ELSE /\ dpc' = [dpc EXCEPT ![p] = "detect"]
            /\ dlocal' = [dlocal EXCEPT ![p] =
                             [NoDetect EXCEPT
                                 !.text = text, !.context = context,
                                 !.cache_key = GenerateCacheKey(text, context)]]
            /\ UNCHANGED <<returned, last_detect>>
    /\ UNCHANGED <<stream_vars, user_profiles, engine_vars, tracker_vars,
                   update_vars, detection_cache, taxonomy_vars, fusion_vars, escalation_vars, obfuscation_vars>>

\* the category detectors and _calculate_risk_score, then _cache_result up
\* to the choice of oldest_key; the cache that is not full is stored into
\* and the call returns
DetectAndCacheResult(p) ==
    /\ dpc[p] = "detect"
    /\ LET result == RunDetection(dlocal[p].text, dlocal[p].context,
                                  abusive_patterns)
       IN  IF Len(detection_cache) >= MaxCacheSize
           THEN /\ dlocal' = [dlocal EXCEPT ![p].result = result,
                                            ![p].oldest_key = detection_cache[1].key]
                /\ dpc' = [dpc EXCEPT ![p] = "evict"]
                /\ UNCHANGED <<detection_cache, returned, last_detect>>
           ELSE /\ detection_cache' = CacheStore(detection_cache,
                                                 dlocal[p].cache_key, result)
                /\ returned' = returned \cup
                       {<<dlocal[p].text, dlocal[p].context, result.risk_score>>}
                /\ last_detect' = DetectReturned(dlocal[p].text,
                                                 dlocal[p].context, result)
                /\ dpc' = [dpc EXCEPT ![p] = "idle"]
                /\ dlocal' = [dlocal EXCEPT ![p] = NoDetect]
    /\ UNCHANGED <<stream_vars, user_profiles, engine_vars, tracker_vars,
                   update_vars, dcalls, taxonomy_vars, fusion_vars, escalation_vars, obfuscation_vars>>

\* del self.detection_cache[oldest_key]; self.detection_cache[key] = result.
\* Deleting a key that is no longer there raises KeyError out of the call
CacheEvictAndStore(p) ==
    /\ dpc[p] = "evict"
    /\ IF dlocal[p].oldest_key \in CacheKeys(detection_cache)
       THEN /\ detection_cache' =
                   CacheStore(CacheDelete(detection_cache, dlocal[p].oldest_key),
                              dlocal[p].cache_key, dlocal[p].result)
            /\ returned' = returned \cup
                   {<<dlocal[p].text, dlocal[p].context,
                      dlocal[p].result.risk_score>>}
            /\ last_detect' = DetectReturned(dlocal[p].text, dlocal[p].context,
                                             dlocal[p].result)
            /\ dpc' = [dpc EXCEPT ![p] = "idle"]
            /\ dlocal' = [dlocal EXCEPT ![p] = NoDetect]
       ELSE /\ dpc' = [dpc EXCEPT ![p] = "raised KeyError"]
            /\ UNCHANGED <<detection_cache, returned, last_detect, dlocal>>
    /\ UNCHANGED <<stream_vars, user_profiles, engine_vars, tracker_vars,
                   update_vars, dcalls, taxonomy_vars, fusion_vars, escalation_vars, obfuscation_vars>>

\* ------------------------------------------- the taxonomy, changed at runtime
CategoryIndex(taxonomy, category) ==
    CHOOSE i \in 1..Len(taxonomy) : taxonomy[i].category = category

HasCategory(taxonomy, category) ==
    \E i \in 1..Len(taxonomy) : taxonomy[i].category = category

NoPatternCall ==
    [op |-> "none", category |-> "", pattern |-> "", severity |-> 0,
     result |-> FALSE, before |-> <<>>]

\* add_custom_pattern(category, pattern, severity): the category is created
\* before re.compile tests the pattern
AddCustomPattern(category, pattern, severity) ==
    LET with_category ==
            IF HasCategory(abusive_patterns, category) THEN abusive_patterns
            ELSE Append(abusive_patterns,
                        [category |-> category, words |-> <<>>,
                         patterns |-> <<>>, severity |-> severity])
    IN  /\ pcalls < MaxTaxonomyCalls
        /\ pcalls' = pcalls + 1
        /\ abusive_patterns' =
              IF pattern = Malformed THEN with_category
              ELSE [with_category EXCEPT
                       ![CategoryIndex(with_category, category)].patterns =
                           Append(@, pattern)]
        /\ last_pattern_call' =
              [op |-> "add_custom_pattern", category |-> category,
               pattern |-> pattern, severity |-> severity,
               result |-> pattern /= Malformed, before |-> abusive_patterns]
        /\ UNCHANGED <<stream_vars, user_profiles, engine_vars, tracker_vars,
                       update_vars, cache_vars, fusion_vars, escalation_vars, obfuscation_vars>>

\* list.remove(x): the list without the first x
RemoveFirst(s, x) ==
    LET i == CHOOSE k \in 1..Len(s) : s[k] = x /\ \A j \in 1..(k - 1) : s[j] /= x
    IN  SubSeq(s, 1, i - 1) \o SubSeq(s, i + 1, Len(s))

\* remove_pattern(category, pattern)
RemovePattern(category, pattern) ==
    LET found ==
            /\ HasCategory(abusive_patterns, category)
            /\ \E k \in 1..Len(abusive_patterns[
                              CategoryIndex(abusive_patterns, category)].patterns) :
                  abusive_patterns[CategoryIndex(abusive_patterns, category)]
                      .patterns[k] = pattern
    IN  /\ pcalls < MaxTaxonomyCalls
        /\ pcalls' = pcalls + 1
        /\ abusive_patterns' =
              IF found
              THEN [abusive_patterns EXCEPT
                       ![CategoryIndex(abusive_patterns, category)].patterns =
                           RemoveFirst(@, pattern)]
              ELSE abusive_patterns
        /\ last_pattern_call' =
              [op |-> "remove_pattern", category |-> category,
               pattern |-> pattern, severity |-> 0, result |-> found,
               before |-> abusive_patterns]
        /\ UNCHANGED <<stream_vars, user_profiles, engine_vars, tracker_vars,
                       update_vars, cache_vars, fusion_vars, escalation_vars, obfuscation_vars>>

\* ------------------------------------------------------ ObfuscationDetector
\* the texts and the target words handed to detect_obfuscated_words
ObfuscationTexts ==
    {"hello", "h3ll0", "s t u p i d", "i-d-i-o-t", "normal", "1d10t", "tet3stest"}

TargetWords == {"hello", "stupid", "idiot", "normal", "test"}

\* the default max_variants of _generate_substitution_variants, of
\* _generate_unicode_variants and of _generate_scrambled_variants, and the
\* number of variants _detect_mixed_obfuscation spaces out
max_variants == 20
max_unicode_variants == 10
max_scrambled_variants == 5
mixed_variants == 10

\* _init_character_map, for the letters of the target words
CharacterSubstitutions(c) ==
    CASE c = "a" -> <<"@", "4", "U+03B1", "U+00E0", "U+00E1",
             "U+00E2", "U+00E4", "U+00E3", "U+00E5", "U+0101">>
      [] c = "e" -> <<"3", "U+03B5", "U+00E8", "U+00E9",
             "U+00EA", "U+00EB", "U+0113", "U+20AC">>
      [] c = "i" -> <<"1", "!", "U+03B9", "U+00EC", "U+00ED",
             "U+00EE", "U+00EF", "U+012B", "|">>
      [] c = "o" -> <<"0", "U+03BF", "U+00F2", "U+00F3", "U+00F4",
             "U+00F6", "U+00F5", "U+014D", "U+00B0">>
      [] c = "u" -> <<"U+03C5", "U+00F9", "U+00FA", "U+00FB",
             "U+00FC", "U+016B", "U+00B5">>
      [] c = "s" -> <<"5", "$", "U+03C2", "U+0161", "U+015F", "U+00A7">>
      [] c = "t" -> <<"7", "+", "U+03C4", "U+0165", "U+0163">>
      [] c = "l" -> <<"1", "|", "U+03B9", "U+013A", "U+0142">>
      [] c = "n" -> <<"U+03B7", "U+00F1", "U+0144", "U+0148">>
      [] c = "r" -> <<"U+03B3", "U+0159">>
      [] c = "h" -> <<"#">>
      [] c = "m" -> <<"U+03BC">>
      [] c = "p" -> <<"U+03C1">>
      [] OTHER -> <<>>

\* _init_leet_speak, in dict order: <<leet character, normal character>>
LeetSpeakMap ==
    <<<<"@", "a">>, <<"4", "a">>, <<"3", "e">>, <<"1", "i">>, <<"!", "i">>,
      <<"0", "o">>, <<"5", "s">>, <<"$", "s">>, <<"7", "t">>, <<"+", "t">>,
      <<"|", "l">>, <<"9", "g">>, <<"6", "b">>, <<"2", "z">>, <<"(", "c">>,
      <<"#", "h">>, <<"U+00D7", "x">>>>

\* _init_unicode_variants, for the letters of the target words
UnicodeVariants(c) ==
    CASE c = "a" -> <<"U+0430", "U+03B1", "U+0251", "U+FF41">>
      [] c = "e" -> <<"U+0435", "U+03B5", "U+FF45">>
      [] c = "o" -> <<"U+043E", "U+03BF", "U+FF4F", "U+19D0">>
      [] c = "p" -> <<"U+0440", "U+03C1", "U+FF50">>
      [] c = "n" -> <<"U+03B7", "U+FF4E">>
      [] c = "h" -> <<"U+04BB", "U+FF48">>
      [] c = "m" -> <<"U+043C", "U+03BC", "U+FF4D">>
      [] c = "r" -> <<"U+0433", "U+03B3", "U+FF52">>
      [] c = "t" -> <<"U+0442", "U+03C4", "U+FF54">>
      [] c = "i" -> <<"U+0456", "U+03B9", "U+FF49">>
      [] c = "u" -> <<"U+03C5", "U+FF55">>
      [] c = "s" -> <<"U+0455", "U+03C2", "U+FF53">>
      [] OTHER -> <<>>

\* common_separators
CommonSeparators ==
    <<" ", ".", "-", "_", "*", "!", "@", "#", "$", "%", "^", "&">>

\* common_leet_variants of _generate_substitution_variants
CommonLeetVariants(word) ==
    CASE word = "hello" -> {Letters("h3llo"), Letters("he11o"), Letters("h311o"),
                            Letters("h3ll0"), Letters("he1lo")}
      [] word = "stupid" -> {Letters("5tupid"), Letters("stup1d"),
                             Letters("stup!d"), Letters("5tup1d")}
      [] word = "idiot" -> {Letters("1diot"), Letters("id!ot"), Letters("1d10t"),
                            Letters("id10t")}
      [] OTHER -> {}

\* an ObfuscationMatch; position is (start, end) as the source counts it
ObfuscationMatch(original_word, confidence, obfuscation_type, start, end) ==
    [original_word |-> original_word, confidence |-> confidence,
     obfuscation_type |-> obfuscation_type, position |-> <<start, end>>]

\* str.replace(old, new) for single characters
ReplaceChar(chars, old, new) ==
    [i \in 1..Len(chars) |-> IF chars[i] = old THEN new ELSE chars[i]]

\* separator.join(chars)
Join(separator, chars) ==
    Concat([i \in 1..Len(chars) |->
               IF i = 1 THEN <<chars[i]>> ELSE separator \o <<chars[i]>>])

\* chars[::-1]
Reversed(chars) == [i \in 1..Len(chars) |-> chars[Len(chars) + 1 - i]]

RECURSIVE FindIter(_, _, _)
\* pattern.finditer(text) for an escaped literal: the places, counted from 1,
\* of its matches from the left, no two overlapping
FindIter(pattern, text, from) ==
    IF from + Len(pattern) - 1 > Len(text) THEN <<>>
    ELSE IF SubSeq(text, from, from + Len(pattern) - 1) = pattern
    THEN <<from>> \o FindIter(pattern, text, from + Len(pattern))
    ELSE FindIter(pattern, text, from + 1)

\* the matches of a literal in a text, each with this confidence
LiteralMatches(word, obfuscation_type, confidence, literal, text) ==
    LET places == FindIter(literal, text, 1)
    IN  {ObfuscationMatch(word, confidence, obfuscation_type, places[k] - 1,
                          places[k] - 1 + Len(literal)) : k \in 1..Len(places)}

\* is the first match at or before the second in a text?
Before(x, y) ==
    \/ x.position[1] < y.position[1]
    \/ x.position[1] = y.position[1] /\ x.position[2] < y.position[2]
    \/ x.position = y.position /\ x.confidence <= y.confidence

RECURSIVE InTextOrder(_)
\* the matches one detection method appends, as a list.  A method goes
\* through its variants in the order of a set; _deduplicate_matches sorts
\* the matches by their start and two matches of one method that start at
\* the same place span the same characters, so the list is given in the order
\* of the text
InTextOrder(matches) ==
    IF matches = {} THEN <<>>
    ELSE LET first == CHOOSE x \in matches : \A y \in matches : Before(x, y)
         IN  <<first>> \o InTextOrder(matches \ {first})

RECURSIVE SingleSubstitutions(_, _, _, _)
\* the loop of _generate_substitution_variants over the characters of the
\* word and their substitutes; the break leaves the inner loop only
SingleSubstitutions(word, i, k, variants) ==
    IF i > Len(word) THEN variants
    ELSE IF k > Len(CharacterSubstitutions(word[i]))
    THEN SingleSubstitutions(word, i + 1, 1, variants)
    ELSE LET added == variants
                        \cup {[word EXCEPT ![i] = CharacterSubstitutions(word[i])[k]]}
         IN  IF Cardinality(added) >= max_variants
             THEN SingleSubstitutions(word, i + 1, 1, added)
             ELSE SingleSubstitutions(word, i, k + 1, added)

RECURSIVE LeetWord(_, _)
\* leet_word: every normal character replaced by its leet character, entry
\* by entry of leet_speak_map
LeetWord(chars, k) ==
    IF k > Len(LeetSpeakMap) THEN chars
    ELSE LeetWord(ReplaceChar(chars, LeetSpeakMap[k][2], LeetSpeakMap[k][1]), k + 1)

\* the set `variants` of _generate_substitution_variants before it is cut to
\* max_variants
SubstitutionVariants(word) ==
    SingleSubstitutions(Letters(word), 1, 1, {Letters(word)})
        \cup {LeetWord(Letters(word), 1)}
        \cup CommonLeetVariants(word)

\* the variants that can match in this text, as they are or spaced out by
\* _detect_mixed_obfuscation
RelevantVariants(text, word) ==
    {variant \in SubstitutionVariants(word) :
        \/ FindIter(variant, Letters(text), 1) /= <<>>
        \/ \E separator \in {" ", ".", "-", "_"} :
              FindIter(Join(<<separator>>, variant), Letters(text), 1) /= <<>>}

\* list(variants)[:max_variants] keeps the first max_variants elements of a
\* set in the order of its hash table, and _detect_mixed_obfuscation takes
\* the first mixed_variants of those: any of the variants can be among the
\* ones kept, as long as enough are.  kept and first_ten are the variants
\* kept that can match in this text
VariantChoices(text, word) ==
    LET total == Cardinality(SubstitutionVariants(word))
        relevant == RelevantVariants(text, word)
        length == Min(max_variants, total)
    IN  {choice \in [kept : SUBSET relevant, first_ten : SUBSET relevant] :
            /\ choice.first_ten \subseteq choice.kept
            /\ Cardinality(choice.kept) <= length
            /\ length - Cardinality(choice.kept) <= total - Cardinality(relevant)
            /\ Cardinality(relevant \ choice.kept) <= total - length
            /\ Cardinality(choice.first_ten) <= mixed_variants
            /\ Min(mixed_variants, length) - Cardinality(choice.first_ten)
                  <= length - Cardinality(choice.kept)
            /\ Cardinality(choice.kept \ choice.first_ten)
                  <= Max(0, length - mixed_variants)}

\* _calculate_substitution_confidence, for two strings of one length
SubstitutionConfidence(obfuscated, original) ==
    LET matches == {i \in 1..Len(original) : obfuscated[i] = original[i]}
        substitutions ==
            {i \in 1..Len(original) :
                /\ obfuscated[i] /= original[i]
                /\ \/ \E k \in 1..Len(CharacterSubstitutions(original[i])) :
                         CharacterSubstitutions(original[i])[k] = obfuscated[i]
                   \/ \E k \in 1..Len(LeetSpeakMap) :
                         LeetSpeakMap[k] = <<obfuscated[i], original[i]>>}
    IN  Min(ConfidenceOne,
            ((10 * Cardinality(matches) + 8 * Cardinality(substitutions))
                * (ConfidenceOne \div 10)) \div Len(original))

\* _detect_character_substitution: the variants kept, where they occur, with
\* a confidence above 0.6
DetectCharacterSubstitution(text, word, kept) ==
    InTextOrder(UNION {
        {match \in LiteralMatches(word, "character_substitution",
                                  SubstitutionConfidence(variant, Letters(word)),
                                  variant, Letters(text)) :
            10 * match.confidence > 6 * ConfidenceOne} : variant \in kept})

\* _detect_spacing_obfuscation: the word joined by each separator
DetectSpacingObfuscation(text, word) ==
    LET separators == {<<" ">>, <<" ", ".", " ">>, <<" ", "-", " ">>,
                       <<" ", "_", " ">>}
                      \cup {<<CommonSeparators[k]>> : k \in 1..Len(CommonSeparators)}
    IN  InTextOrder(UNION {
            LiteralMatches(word, "spacing_obfuscation", 8 * (ConfidenceOne \div 10),
                           Join(separator, Letters(word)), Letters(text)) :
                separator \in separators})

\* does [^\w] leave the character in place?  (for the characters of the texts)
IsWordCharacter(c) ==
    c \notin {" ", ".", "-", "*", "!", "@", "#", "$", "%", "^", "&", "|", "+", "("}

\* _calculate_mixed_confidence
MixedConfidence(obfuscated, original) ==
    LET cleaned_obfuscated == SelectSeq(obfuscated, IsWordCharacter)
        separator_count == Len(obfuscated) - Len(cleaned_obfuscated)
        penalty == Min(3 * (ConfidenceOne \div 10),
                       separator_count * 5 * (ConfidenceOne \div 100))
    IN  IF cleaned_obfuscated = <<>> THEN 0
        ELSE Max(0, CalculateSimilarity(cleaned_obfuscated, original) - penalty)

\* _detect_mixed_obfuscation: the first variants of the list, spaced out
DetectMixedObfuscation(text, word, first_ten) ==
    InTextOrder(UNION {
        {match \in LiteralMatches(word, "mixed_obfuscation",
                                  MixedConfidence(Join(<<separator>>, variant),
                                                  Letters(word)),
                                  Join(<<separator>>, variant), Letters(text)) :
            10 * match.confidence > 5 * ConfidenceOne} :
        <<variant, separator>> \in first_ten \X {" ", ".", "-", "_"}})

RECURSIVE UnicodeSubstitutions(_, _, _, _)
\* the loop of _generate_unicode_variants; the break leaves the inner loop only
UnicodeSubstitutions(word, i, k, variants) ==
    IF i > Len(word) THEN variants
    ELSE IF k > Len(UnicodeVariants(word[i]))
    THEN UnicodeSubstitutions(word, i + 1, 1, variants)
    ELSE LET added == variants \cup {[word EXCEPT ![i] = UnicodeVariants(word[i])[k]]}
         IN  IF Cardinality(added) >= max_unicode_variants
             THEN UnicodeSubstitutions(word, i + 1, 1, added)
             ELSE UnicodeSubstitutions(word, i, k + 1, added)

\* _detect_unicode_variants: every window of the text as long as the word
\* that is more than 0.7 similar to a variant
DetectUnicodeVariants(text, word) ==
    LET chars == Letters(text)
        length == Len(Letters(word))
    IN  InTextOrder(
           {ObfuscationMatch(word,
                             CalculateSimilarity(variant, SubSeq(chars, i, i + length - 1)),
                             "unicode_variants", i - 1, i - 1 + length) :
               <<variant, i>> \in
                   {<<v, j>> \in UnicodeSubstitutions(Letters(word), 1, 1, {})
                                   \X (1..(Len(chars) - length + 1)) :
                       10 * CalculateSimilarity(v, SubSeq(chars, j, j + length - 1))
                           > 7 * ConfidenceOne}})

RECURSIVE ScrambledVariants(_, _, _)
\* _generate_scrambled_variants: the swaps of two adjacent characters
ScrambledVariants(word, i, variants) ==
    IF i > Len(word) - 1 THEN variants
    ELSE LET added == variants
                        \cup {[word EXCEPT ![i] = word[i + 1], ![i + 1] = word[i]]}
         IN  IF Cardinality(added) >= max_scrambled_variants THEN added
             ELSE ScrambledVariants(word, i + 1, added)

\* _detect_scrambled_text: the word reversed, and for a word of at most six
\* characters its scrambled variants
DetectScrambledText(text, word) ==
    InTextOrder(LiteralMatches(word, "reversed_text", 8 * (ConfidenceOne \div 10),
                               Reversed(Letters(word)), Letters(text)))
    \o (IF Len(Letters(word)) <= 6
        THEN InTextOrder(UNION {
                 LiteralMatches(word, "scrambled_text", 6 * (ConfidenceOne \div 10),
                                variant, Letters(text)) :
                     variant \in ScrambledVariants(Letters(word), 1, {})})
        ELSE <<>>)

\* _find_obfuscated_word: the five methods, one after the other
FindObfuscatedWord(text, word, choice) ==
    DetectCharacterSubstitution(text, word, choice.kept)
    \o DetectSpacingObfuscation(text, word)
    \o DetectMixedObfuscation(text, word, choice.first_ten)
    \o DetectUnicodeVariants(text, word)
    \o DetectScrambledText(text, word)

\* _positions_overlap
PositionsOverlap(pos1, pos2) == ~(pos1[2] <= pos2[1] \/ pos2[2] <= pos1[1])

RECURSIVE SortByStart(_)
\* sorted(matches, key=lambda x: x.position[0]): stable
SortByStart(matches) ==
    IF matches = <<>> THEN <<>>
    ELSE LET rest == SortByStart(Tail(matches))
             starts_before(m) == m.position[1] < Head(matches).position[1]
             starts_after(m) == m.position[1] >= Head(matches).position[1]
         IN  SelectSeq(rest, starts_before) \o <<Head(matches)>>
                \o SelectSeq(rest, starts_after)

RECURSIVE SortByConfidence(_)
\* sorted(matches, key=lambda x: x.confidence, reverse=True): stable
SortByConfidence(matches) ==
    IF matches = <<>> THEN <<>>
    ELSE LET rest == SortByConfidence(Tail(matches))
             higher(m) == m.confidence > Head(matches).confidence
             not_higher(m) == m.confidence <= Head(matches).confidence
         IN  SelectSeq(rest, higher) \o <<Head(matches)>> \o SelectSeq(rest, not_higher)

\* list.remove of the k-th element
RemoveAt(s, k) == SubSeq(s, 1, k - 1) \o SubSeq(s, k + 1, Len(s))

RECURSIVE DeduplicateLoop(_, _)
\* the loop of _deduplicate_matches: a match is compared with the first
\* match kept that it overlaps for the same word, and replaces it when its
\* confidence is higher
DeduplicateLoop(sorted_matches, unique_matches) ==
    IF sorted_matches = <<>> THEN unique_matches
    ELSE LET match == Head(sorted_matches)
             overlapped ==
                 {k \in 1..Len(unique_matches) :
                     /\ PositionsOverlap(match.position, unique_matches[k].position)
                     /\ match.original_word = unique_matches[k].original_word}
             existing == CHOOSE k \in overlapped : \A j \in overlapped : k <= j
         IN  IF overlapped = {}
             THEN DeduplicateLoop(Tail(sorted_matches), Append(unique_matches, match))
             ELSE IF match.confidence > unique_matches[existing].confidence
             THEN DeduplicateLoop(Tail(sorted_matches),
                                  Append(RemoveAt(unique_matches, existing), match))
             ELSE DeduplicateLoop(Tail(sorted_matches), unique_matches)

\* _deduplicate_matches
DeduplicateMatches(matches) == DeduplicateLoop(SortByStart(matches), <<>>)

NoObfuscationCall ==
    [kind |-> "none", text |-> "", target_words |-> <<>>, candidates |-> <<>>,
     result |-> <<>>]

\* detect_obfuscated_words(text, target_words); choices[k] says which
\* variants of target_words[k] the cut list holds
DetectObfuscatedWords(text, target_words, choices) ==
    LET matches == Concat([k \in 1..Len(target_words) |->
                              FindObfuscatedWord(text, target_words[k], choices[k])])
    IN  /\ last_obfuscation' =
              [kind |-> "returned", text |-> text, target_words |-> target_words,
               candidates |-> matches,
               result |-> SortByConfidence(DeduplicateMatches(matches))]
        /\ UNCHANGED <<stream_vars, user_profiles, engine_vars, tracker_vars,
                       update_vars, detector_vars, fusion_vars, escalation_vars>>

\* ----------------------------------------- the two risk fusion functions
\* content_result.risk_score and sentiment_result.toxicity_score, in percent
FusionScores == {0, 50, 100}

\* the component results one fusion call can be handed; the context result
\* is always there, the content and sentiment results may be None
FusionSignals ==
    [risk_score : FusionScores, threats : {FALSE}, toxicity : FusionScores,
     patterns : PatternChoices, context : ContextChoices,
     obfuscation : {NoObfuscation, <<[confidence |-> 75]>>}]

FusionComponents ==
    {present \cup {"context_analyzer"} :
        present \in SUBSET {"content_detector", "sentiment_analyzer"}}

NoFusionInput == [ran |-> {}, signals |-> QuietSignals]
NoFusionOutput == [risk_score |-> 0, is_abusive |-> FALSE, should_block |-> FALSE]

\* _process_message, steps 5 and 6: the score and the two flags of the worker
StreamFusion(sig) ==
    LET risk_score == StreamOverallRisk(sig.risk_score, sig.toxicity,
                                        sig.patterns, sig.context)
    IN  [risk_score |-> risk_score,
         is_abusive |-> risk_score > abusive_threshold,
         should_block |-> risk_score >= blocking_threshold]

\* analyze_content: the score and the two flags of the response
EngineFusion(ran, sig) ==
    LET risk_score == EngineOverallRisk(ran, sig)
    IN  [risk_score |-> risk_score,
         is_abusive |-> risk_score >= suggestion_threshold,
         should_block |-> risk_score >= blocking_threshold]

\* both _calculate_overall_risk functions applied to the same results
CalculateOverallRisk(ran, sig) ==
    /\ fusion_input' = [ran |-> ran, signals |-> sig]
    /\ stream_risk' = StreamFusion(sig)
    /\ engine_risk' = EngineFusion(ran, sig)
    /\ UNCHANGED <<stream_vars, user_profiles, engine_vars, tracker_vars,
                   update_vars, detector_vars, escalation_vars, obfuscation_vars>>

\* ------------------------------------------------------------ the system
Init ==
    /\ is_running = FALSE
    /\ now = 0
    /\ next_id = 0
    /\ status = [m \in MsgIds |-> "none"]
    /\ retry_count = [m \in MsgIds |-> 0]
    /\ priority = [m \in MsgIds |-> "NORMAL"]
    /\ msg_user = [m \in MsgIds |-> Absent]
    /\ msg_ctx_user = [m \in MsgIds |-> Absent]
    /\ priority_queues = [t \in MessagePriority |-> {}]
    /\ rate_limits = <<>>
    /\ callbacks = [e \in EventTypes |-> 0]
    /\ wpc = [t \in MessagePriority |-> "idle"]
    /\ wcur = [t \in MessagePriority |-> NoMsg]
    /\ wstart = [t \in MessagePriority |-> 0]
    /\ wresult = [t \in MessagePriority |-> NoResult]
    /\ processed_messages = <<>>
    /\ blocked_messages = <<>>
    /\ stats = [messages_processed |-> 0, messages_blocked |-> 0]
    /\ fired = {}
    /\ last_add = [user |-> Absent, outcome |-> "none", rate_limited |-> FALSE,
                   enqueued |-> FALSE]
    /\ attempts = [m \in MsgIds |-> 0]
    /\ accepted_at = [u \in Users |-> <<>>]
    /\ user_profiles = <<>>
    /\ analysis_cache = <<>>
    /\ total_analyses = 0
    /\ calls = 0
    /\ last_request = NoRequest
    /\ response = NoResponse
    /\ conversation_history = <<>>
    /\ tcalls = 0
    /\ last_context = NoContext
    /\ last_patterns = {}
    /\ sent_log = <<>>
    /\ upc = [t \in MessagePriority |-> "idle"]
    /\ ulocal = [t \in MessagePriority |-> NoUpdate]
    /\ ucount = [u \in ProfileKeys |-> 0]
    /\ detection_cache = <<>>
    /\ dpc = [t \in MessagePriority |-> "idle"]
    /\ dlocal = [t \in MessagePriority |-> NoDetect]
    /\ dcalls = 0
    /\ returned = {}
    /\ last_detect = NoDetectCall
    /\ abusive_patterns = InitialPatterns
    /\ pcalls = 0
    /\ last_pattern_call = NoPatternCall
    /\ fusion_input = NoFusionInput
    /\ stream_risk = NoFusionOutput
    /\ engine_risk = NoFusionOutput
    /\ ecalls = 0
    /\ last_escalation = NoEscalationCall
    /\ last_obfuscation = NoObfuscationCall

\* The scheduler: ingress, the four tier workers, retries and callbacks, for
\* one caller and with the clock standing still.
Next ==
    \/ StartProcessing
    \/ RegisterCallback("on_processing_error")
    \/ \E c \in {"threat", "plain"} : AddMessage("u1", c, FALSE, Absent)
    \/ \E p \in MessagePriority : WorkerGet(p)
    \/ \E p \in MessagePriority, x \in ContentRiskChoices :
          ProcessSucceeds(p, x, x, <<>>, NeutralContext)
    \/ \E p \in MessagePriority : ProcessRaises(p, "content_detector")
    \/ \E p \in MessagePriority : Requeue(p)
    \/ \E p \in MessagePriority : HandleProcessingResult(p)

Spec == Init /\ [][Next]_vars

\* The scheduler with fair workers: every worker thread keeps being
\* scheduled and every detector call returns.
FairSpec ==
    /\ Spec
    /\ \A p \in MessagePriority :
          /\ WF_vars(WorkerGet(p))
          /\ WF_vars(\E x \in ContentRiskChoices :
                        ProcessSucceeds(p, x, x, <<>>, NeutralContext)
                     \/ ProcessRaises(p, "content_detector"))
          /\ WF_vars(Requeue(p))
          /\ WF_vars(HandleProcessingResult(p))

\* Ingress under a running clock: one caller sends every kind of content, a
\* second one plain messages.
\* The workers never read or write rate_limits; here they are not scheduled,
\* so the queues only fill.
IngressNext ==
    \/ StartProcessing
    \/ Tick
    \/ \E c \in ContentKinds, h \in BOOLEAN : AddMessage("u1", c, h, Absent)
    \/ AddMessage("u2", "plain", FALSE, Absent)

IngressSpec == Init /\ [][IngressNext]_vars

\* One caller, a running clock and workers whose detectors take their time.
TimedNext ==
    \/ StartProcessing
    \/ Tick
    \/ AddMessage("u1", "plain", FALSE, Absent)
    \/ \E p \in MessagePriority : WorkerGet(p)
    \/ \E p \in MessagePriority, x \in ContentRiskChoices :
          ProcessSucceeds(p, x, x, <<>>, NeutralContext)
    \/ \E p \in MessagePriority : HandleProcessingResult(p)

TimedSpec == Init /\ [][TimedNext]_vars

\* The engine called directly: requests of every mode and content, with and
\* without a 'user_id' in their context, and any one component failing.
EngineNext ==
    \E user_id \in Users, ctx_user \in {Absent, "u2"},
       content \in EngineContents, mode \in AnalysisModes,
       include_patterns \in BOOLEAN, sig \in SignalChoices,
       raised \in {"none"} \cup EngineComponents :
        AnalyzeContent(user_id, ctx_user, content, mode, include_patterns,
                       sig, raised)

EngineSpec == Init /\ [][EngineNext]_vars

\* The tracker called directly by one user and swept: messages with a
\* timestamp of the caller's choosing, and messages in a conversation that
\* carry none.
RetentionNext ==
    \/ Elapse
    \/ \E timestamp \in {0, 2} :
          AnalyzeMessagePatterns(
             [message |-> "hello", user_id |-> "u1", target_id |-> Absent,
              conversation_id |-> Absent, has_timestamp |-> TRUE,
              timestamp |-> timestamp], 12)
    \/ AnalyzeMessagePatterns(
          [message |-> "hello", user_id |-> "u1", target_id |-> Absent,
           conversation_id |-> "c1", has_timestamp |-> FALSE,
           timestamp |-> 0], 12)
    \/ CleanupOldData

RetentionSpec == Init /\ [][RetentionNext]_vars

\* One user whose messages come with the time of the call or with a timestamp
\* of the sender's choosing, and whose escalation score is updated.
EscalationNext ==
    \/ Elapse
    \/ \E has_timestamp \in BOOLEAN :
          /\ tcalls < MaxEscalationMessages
          /\ AnalyzeMessagePatterns(
                [message |-> "hello", user_id |-> "u1", target_id |-> Absent,
                 conversation_id |-> Absent, has_timestamp |-> has_timestamp,
                 timestamp |-> 3], 12)
    \/ \E user_id \in Users, pattern_matches \in EscalationMatches :
          UpdateEscalationScore(user_id, pattern_matches)

EscalationSpec == Init /\ [][EscalationNext]_vars

\* detect_obfuscated_words called with one and with two target words.  The
\* detector keeps nothing from one call to the next, so a behaviour is one
\* call.
ObfuscationNext ==
    \/ \E text \in ObfuscationTexts, word \in TargetWords :
          /\ last_obfuscation.kind = "none"
          /\ \E choice \in VariantChoices(text, word) :
                 DetectObfuscatedWords(text, <<word>>, <<choice>>)
    \/ \E text \in ObfuscationTexts, first \in TargetWords,
          second \in TargetWords \ {"test"} :
          /\ last_obfuscation.kind = "none"
          /\ first /= second
          /\ \E choice1 \in VariantChoices(text, first),
                choice2 \in VariantChoices(text, second) :
                 DetectObfuscatedWords(text, <<first, second>>, <<choice1, choice2>>)

ObfuscationSpec == Init /\ [][ObfuscationNext]_vars

\* One user writing to two targets in daytime.
HarassmentNext ==
    \/ Tick
    \/ \E message \in {"you always lie", "hello"}, target_id \in Targets :
          AnalyzeMessagePatterns(
             [message |-> message, user_id |-> "u1", target_id |-> target_id,
              conversation_id |-> Absent, has_timestamp |-> FALSE,
              timestamp |-> 0], 12)

HarassmentSpec == Init /\ [][HarassmentNext]_vars

\* One user writing to one target, or to nobody in particular, at any hour.
StalkingNext ==
    \/ Tick
    \/ \E message \in {"i know where you live", "hello"},
          target_id \in {"t1", Absent}, hour \in Hours :
          AnalyzeMessagePatterns(
             [message |-> message, user_id |-> "u1", target_id |-> target_id,
              conversation_id |-> Absent, has_timestamp |-> FALSE,
              timestamp |-> 0], hour)

StalkingSpec == Init /\ [][StalkingNext]_vars

\* Three users, one of them without a user id, posting the same phrase in a
\* conversation; the first of them also writes something else, and outside
\* the conversation.
CoordinationNext ==
    \/ Tick
    \/ \E user_id \in Users \cup {Absent} :
          AnalyzeMessagePatterns(
             [message |-> "nobody likes you", user_id |-> user_id,
              target_id |-> Absent, conversation_id |-> "c1",
              has_timestamp |-> FALSE, timestamp |-> 0], 12)
    \/ \E conversation_id \in Conversations \cup {Absent} :
          AnalyzeMessagePatterns(
             [message |-> "hello", user_id |-> "u1", target_id |-> Absent,
              conversation_id |-> conversation_id, has_timestamp |-> FALSE,
              timestamp |-> 0], 12)

CoordinationSpec == Init /\ [][CoordinationNext]_vars

\* The tier workers inside _update_user_profile at the same time, each for a
\* message of its own tier, with the clock running.
UpdateRaceNext ==
    \/ Tick
    \/ \E p \in MessagePriority, ctx_user \in {"u1", Absent} :
          UpdateTestMembership(p, ctx_user)
    \/ \E p \in MessagePriority : UpdateStoreNewProfile(p)
    \/ \E p \in MessagePriority : UpdateProfileFields(p)

UpdateRaceSpec == Init /\ [][UpdateRaceNext]_vars

\* One caller of detect_abusive_content: each call returns before the next.
DetectNext ==
    \/ \E text \in DetectTexts : DetectLookup("NORMAL", text, NoDetectContext)
    \/ DetectAndCacheResult("NORMAL")
    \/ CacheEvictAndStore("NORMAL")

DetectSpec == Init /\ [][DetectNext]_vars

\* The workers of two tiers inside detect_abusive_content at the same time.
DetectRaceNext ==
    \/ \E p \in {"NORMAL", "HIGH"}, text \in DetectTexts :
          DetectLookup(p, text, NoDetectContext)
    \/ \E p \in MessagePriority : DetectAndCacheResult(p)
    \/ \E p \in MessagePriority : CacheEvictAndStore(p)

DetectRaceSpec == Init /\ [][DetectRaceNext]_vars

\* One caller of the category detector who also changes the taxonomy.
TaxonomyTexts ==
    {"you idiots", "Kill yourself", "this is fooo bar", EmptyText, NotAString}

TaxonomyContexts ==
    {NoDetectContext,
     [platform |-> "gaming", user_history |-> "false_positives"]}

\* the add_custom_pattern calls made: <<category, pattern, severity>>
TaxonomyAdditions ==
    {<<"custom", "foo+", 0>>, <<"custom", "foo+", 3>>, <<"custom", "foo+", 9>>,
     <<"custom", Malformed, 3>>, <<"harassment", Malformed, 3>>}

\* the remove_pattern calls made: <<category, pattern>>
TaxonomyRemovals ==
    {<<"custom", "foo+">>, <<"harassment", "kill\\s+yourself">>,
     <<"harassment", "foo+">>}

TaxonomyNext ==
    \/ \E text \in TaxonomyTexts, context \in TaxonomyContexts :
          /\ dcalls < MaxTaxonomyDetects
          /\ DetectLookup("NORMAL", text, context)
    \/ DetectAndCacheResult("NORMAL")
    \/ CacheEvictAndStore("NORMAL")
    \/ \E call \in TaxonomyAdditions : AddCustomPattern(call[1], call[2], call[3])
    \/ \E call \in TaxonomyRemovals : RemovePattern(call[1], call[2])

TaxonomySpec == Init /\ [][TaxonomyNext]_vars

\* Both fusion functions applied to every combination of component results.
FusionNext ==
    \E ran \in FusionComponents, sig \in FusionSignals :
        CalculateOverallRisk(ran, sig)

FusionSpec == Init /\ [][FusionNext]_vars

\* ================================================================ claims
Terminal(m) ==
    \/ status[m] \in {"completed", "blocked"}
    \/ status[m] = "failed" /\ retry_count[m] >= max_retry_attempts

\* the status changes of the per-message state machine
StatusSteps ==
    {<<"none", "pending">>, <<"pending", "processing">>,
     <<"processing", "completed">>, <<"processing", "blocked">>,
     <<"processing", "failed">>, <<"failed", "processing">>}

\* C1: a message's status moves only along PENDING -> PROCESSING ->
\* {COMPLETED, BLOCKED, FAILED}; a FAILED message goes back to PROCESSING only
\* through the LOW queue and only while its retry count is below
\* max_retry_attempts; no message is processed more than max_retry_attempts
\* times, and FAILED after the last attempt is final.
C1_RetryStateMachine ==
    /\ [](\A m \in MsgIds :
            /\ attempts[m] <= max_retry_attempts
            /\ \A t \in MessagePriority :
                  (m \in priority_queues[t] /\ status[m] = "failed")
                      => (t = "LOW" /\ retry_count[m] < max_retry_attempts))
    /\ [][\A m \in MsgIds :
            /\ status'[m] /= status[m] => <<status[m], status'[m]>> \in StatusSteps
            /\ (status[m] = "failed" /\ status'[m] = "processing")
                  => (m \in priority_queues["LOW"]
                      /\ retry_count[m] < max_retry_attempts)
            /\ Terminal(m) => status'[m] = status[m]]_vars

\* C1 witness: a message failed on its third attempt and stays FAILED
C1_Witness ==
    \E m \in MsgIds :
        /\ status[m] = "failed"
        /\ attempts[m] = max_retry_attempts
        /\ retry_count[m] = max_retry_attempts
        /\ \A p \in MessagePriority : wcur[p] /= m

\* C2: a rate-limited add_message does not enqueue and tells the caller so:
\* its outcome differs from the outcome of an accepted call (which returns the
\* message id).
C2_RateLimitRejectionIsExplicit ==
    last_add.rate_limited
        => (~last_add.enqueued /\ last_add.outcome /= "message_id")

\* C3: no queue ever exceeds its capacity, an add_message that finds its
\* tier's queue full fails, and no worker of another tier ever waits on the
\* full LOW queue with the message it is requeueing.
C3_OverflowFailsNeverBlocks ==
    /\ \A t \in MessagePriority :
          Cardinality(priority_queues[t]) <= QueueMaxSize(t)
    /\ last_add.outcome = "Full" => ~last_add.enqueued
    /\ \A p \in MessagePriority \ {"LOW"} :
          ~(wpc[p] = "requeue" /\ QueueFull("LOW"))

\* C4: with fair workers every message add_message accepted reaches a
\* terminal status.
C4_AcceptedIsEventuallyTerminal ==
    \A m \in MsgIds : (status[m] = "pending") ~> Terminal(m)

\* C5: when a worker finishes handling the result of a message's last failed
\* attempt, the registered on_processing_error callbacks have been invoked
\* for that message.
C5_ErrorCallbackOnFinalFailure ==
    [][\A p \in MessagePriority :
          (/\ wpc[p] = "handle" /\ wpc'[p] = "idle"
           /\ wresult[p].error
           /\ retry_count[wcur[p]] >= max_retry_attempts
           /\ callbacks["on_processing_error"] > 0)
              => <<"on_processing_error", wcur[p]>> \in fired']_vars

\* number of entries of a list of times that lie in lo..hi
RECURSIVE CountIn(_, _, _)
CountIn(times, lo, hi) ==
    IF times = <<>> THEN 0
    ELSE (IF Head(times) >= lo /\ Head(times) <= hi THEN 1 ELSE 0)
         + CountIn(Tail(times), lo, hi)

C7_DetectionEndsWithinTimeout ==
    \A p \in MessagePriority :
        wpc[p] = "detect" => now - wstart[p] <= ProcessingTimeout

\* the detectors whose output is a signal of the fusion
SignalDetectors == {"content_detector", "obfuscation_detector",
                    "sentiment_analyzer", "context_analyzer"}

\* the fusion of the signals of a request without those of detector d
RiskWithout(req, d) ==
    EngineOverallRisk(Analyses(req.mode) \ {d},
        [req.signals EXCEPT
            !.obfuscation = IF d = "obfuscation_detector"
                            THEN NoObfuscation ELSE @])

\* C8: when one detector raises during analyze_content, the risk score of
\* the response is the fusion of the signals of the detectors that
\* succeeded.
C8_FailedDetectorOnlyDropsItsSignal ==
    (last_request.raised \in SignalDetectors /\ response.kind = "result")
        => response.risk_score = RiskWithout(last_request, last_request.raised)

\* is the latest call one that failed (invalid content or an internal error)?
CallFailed ==
    \/ last_request.content \in {"empty", "too_long", "unencodable"}
    \/ last_request.raised /= "none"

\* C9: every call of analyze_content returns a result object and lets no
\* exception through; a failed call's result has risk level UNKNOWN, risk
\* score 0.0, is_abusive and should_block false and an alert explaining the
\* failure.
C9_AlwaysReturnsCompleteResult ==
    calls > 0 =>
        /\ response.kind = "result"
        /\ CallFailed =>
              /\ response.risk_level = "UNKNOWN"
              /\ response.risk_score = 0
              /\ ~response.is_abusive
              /\ ~response.should_block
              /\ "analysis_error" \in response.alerts

\* is the profile stored under key k created or changed by this step?
ProfileTouched(k) ==
    /\ k \in DOMAIN user_profiles'
    /\ k \in DOMAIN user_profiles => user_profiles'[k] /= user_profiles[k]

\* C10: a request with user id U creates or updates the profile of U when
\* its pattern analysis runs, and touches no other profile.
C10_OnlySubmittersProfile ==
    [][/\ \A k \in ProfileKeys :
             ProfileTouched(k) => k = last_request'.user_id
       /\ PatternAnalysisRuns(last_request'.mode,
                              last_request'.include_patterns,
                              last_request'.raised)
              /\ last_request'.content = "text"
           => ProfileTouched(last_request'.user_id)]_vars

\* is a list of timestamps in ascending order?
Ascending(times) ==
    \A i, j \in 1..Len(times) : i < j => times[i] <= times[j]

\* C11: whatever timestamps the contexts carry and in whatever order the
\* messages arrive, every profile's time_patterns is sorted ascending and
\* holds at most the maximum number of entries.
C11_TimestampsSortedAndBounded ==
    \A u \in DOMAIN user_profiles :
        /\ Len(user_profiles[u].time_patterns) <= MaxTimePatterns
        /\ Ascending(user_profiles[u].time_patterns)

\* the time of the activity an entry of a conversation history records: the
\* context's timestamp, or the moment of the call when it carries none
ActivityTime(entry) ==
    IF entry.has_timestamp THEN entry.timestamp ELSE entry.stored_at

\* the latest activity of a conversation
LastConversationActivity(history) ==
    CHOOSE t \in {ActivityTime(history[i]) : i \in 1..Len(history)} :
        \A i \in 1..Len(history) : ActivityTime(history[i]) <= t

\* the state a retention sweep at time current_time must leave
SweptState(profiles_before, conversations_before, profiles, conversations, current_time) ==
    /\ \A u \in DOMAIN profiles :
          /\ current_time - profiles[u].last_activity <= RetentionSeconds
          /\ \A i \in 1..Len(profiles[u].time_patterns) :
                current_time - profiles[u].time_patterns[i] < RetentionSeconds
    /\ \A c \in DOMAIN conversations :
          /\ current_time - LastConversationActivity(conversations[c])
                <= RetentionSeconds
          /\ \A i \in 1..Len(conversations[c]) :
                current_time - ActivityTime(conversations[c][i])
                    < RetentionSeconds
    /\ \A u \in DOMAIN profiles_before :
          current_time - profiles_before[u].last_activity < RetentionSeconds
              => u \in DOMAIN profiles
    /\ \A c \in DOMAIN conversations_before :
          current_time - LastConversationActivity(conversations_before[c])
                < RetentionSeconds
              => c \in DOMAIN conversations

\* C16: a retention sweep leaves no profile or conversation whose last
\* activity is older than the retention window, keeps every profile and
\* conversation with activity inside the window, and leaves only entries
\* inside the window in the histories it keeps.
C16_SweepKeepsExactlyTheRecent ==
    [][CleanupOldData =>
          SweptState(user_profiles, conversation_history, user_profiles',
                     conversation_history', now)]_vars

\* the latest call as the log remembers it
Current == sent_log[Len(sent_log)]

\* the types of the matches the latest call returned
ReturnedTypes == {m.pattern_type : m \in last_patterns}

\* the messages of the log, the latest included, that the sender of the
\* latest call sent to its target within `window` before it
SentToSameTarget(window) ==
    Cardinality({i \in 1..Len(sent_log) :
        /\ sent_log[i].user_id = Current.user_id
        /\ sent_log[i].target_id = Current.target_id
        /\ Current.time - sent_log[i].time < window
        /\ Current.time - sent_log[i].time >= 0})

\* C13: the tracker returns a REPETITIVE_HARASSMENT match exactly when the
\* sender has sent at least min_occurrences messages to the same target
\* within the medium window and the current message matches a repetition
\* phrase; such a match has confidence above 0.
C13_RepetitiveHarassmentExactly ==
    tcalls > 0 =>
        /\ "REPETITIVE_HARASSMENT" \in ReturnedTypes
              <=> /\ Current.target_id /= Absent
                  /\ SentToSameTarget(MediumWindow) >= min_occurrences
                  /\ RepetitionEvidence(Current.message) > 0
        /\ \A m \in last_patterns :
              m.pattern_type = "REPETITIVE_HARASSMENT" => m.confidence > 0

\* the users, the sender of the latest call included, with a message similar
\* to the latest one in its conversation within the short window before it
SimilarPosters ==
    {sent_log[i].user_id : i \in
        {j \in 1..Len(sent_log) :
            /\ sent_log[j].conversation_id = Current.conversation_id
            /\ Similar(sent_log[j].message, Current.message)
            /\ Current.time - sent_log[j].time < ShortWindow
            /\ Current.time - sent_log[j].time >= 0}}

\* C14: a call inside a conversation returns a COORDINATED_BULLYING match
\* when at least min_participants distinct users, the sender included, posted
\* similar messages in it within the short window, and also when the message
\* matches a coordination phrase.
C14_CoordinatedBullyingFires ==
    (/\ tcalls > 0
     /\ Current.conversation_id /= Absent
     /\ \/ Cardinality(SimilarPosters) >= min_participants
        \/ CoordinationEvidence(Current.message) > 0)
        => "COORDINATED_BULLYING" \in ReturnedTypes

\* C15: every CYBERSTALKING match returned is backed by a stalking phrase in
\* the current message and by at least frequency_threshold contacts with the
\* target within the long window.
C15_CyberstalkingNeedsPhraseAndFrequency ==
    (tcalls > 0 /\ "CYBERSTALKING" \in ReturnedTypes) =>
        /\ StalkingEvidence(Current.message) > 0
        /\ Current.target_id /= Absent
        /\ SentToSameTarget(LongWindow) >= frequency_threshold

\* have all _update_user_profile calls that started also returned?
NoUpdateInProgress == \A p \in MessagePriority : upc[p] = "idle"

\* C12: when several tier workers analyse messages of one user concurrently,
\* no update is lost: once N calls of _update_user_profile for the user have
\* returned and none is in progress, the user's profile has message_count N
\* and holds N timestamps (at most the bound).
C12_NoProfileUpdateIsLost ==
    NoUpdateInProgress =>
        \A u \in ProfileKeys :
            ucount[u] > 0 =>
                /\ u \in DOMAIN user_profiles
                /\ user_profiles[u].message_count = ucount[u]
                /\ Len(user_profiles[u].time_patterns)
                       = Min(ucount[u], MaxTimePatterns)

\* C19: two detect_abusive_content calls with the same text and context
\* return the same risk score, whatever calls happen in between.
C19_DetectIsIdempotent ==
    \A a \in returned, b \in returned :
        (a[1] = b[1] /\ a[2] = b[2]) => a[3] = b[3]

\* C20: in every interleaving of the tier workers the detection cache holds
\* at most max_cache_size entries, the entry an insertion is about to evict
\* is the oldest one in the cache, and no detect call fails.
C20_CacheBoundedFifoAndNoCallFails ==
    /\ Len(detection_cache) <= MaxCacheSize
    /\ \A p \in MessagePriority :
          /\ dpc[p] = "evict" => dlocal[p].oldest_key = detection_cache[1].key
          /\ dpc[p] /= "raised KeyError"

\* C17: handed the same content, sentiment, pattern and context results, the
\* stream worker and the engine compute the same risk score, the same
\* is_abusive flag and the same should_block flag.
C17_StreamFusionEqualsEngineFusion ==
    (/\ fusion_input.ran = {"content_detector", "sentiment_analyzer",
                            "context_analyzer"}
     /\ fusion_input.signals.obfuscation = NoObfuscation)
        => stream_risk = engine_risk

\* the signals that put a risk factor into the engine's fusion of an input
PresentSignals(input) ==
    (input.ran \cap {"content_detector", "sentiment_analyzer"})
    \cup (IF MaxPatternRisk(input.signals.patterns) > 0
          THEN {"pattern_analyzer"} ELSE {})
    \cup (IF MaxObfuscationRisk(input.signals.obfuscation) > 0
          THEN {"obfuscation_detector"} ELSE {})

\* the engine's fusion of an input restricted to the signals in `keep`
RiskOfSignals(input, keep) ==
    EngineOverallRisk(
        (input.ran \ {"content_detector", "sentiment_analyzer"})
            \cup (input.ran \cap keep),
        [input.signals EXCEPT
            !.patterns = IF "pattern_analyzer" \in keep THEN @ ELSE <<>>,
            !.obfuscation = IF "obfuscation_detector" \in keep
                            THEN @ ELSE NoObfuscation])

\* C18 as stated: for every set of present risk factors and a fixed context
\* multiplier, the fused score with one more present signal is never lower
\* than the fused score without it.
C18_AddedSignalNeverLowersScore ==
    \A signal \in PresentSignals(fusion_input) :
        engine_risk.risk_score
            >= RiskOfSignals(fusion_input,
                             PresentSignals(fusion_input) \ {signal})

\* C18, amended: a further signal dilutes the fused score only within a
\* bound.  The fused score is at least 0.6 times what any one present signal
\* alone fuses to, and a third signal added to two present ones never lowers
\* the score.
C18_DilutionIsBounded ==
    \A signal \in PresentSignals(fusion_input) :
        /\ 10 * engine_risk.risk_score
              >= 6 * RiskOfSignals(fusion_input, {signal})
        /\ Cardinality(PresentSignals(fusion_input)) = 3 =>
              engine_risk.risk_score
                  >= RiskOfSignals(fusion_input,
                                   PresentSignals(fusion_input) \ {signal})

\* a fusion whose score is strictly lower than without one of its signals
C18_Witness ==
    \E signal \in PresentSignals(fusion_input) :
        /\ Cardinality(PresentSignals(fusion_input)) >= 2
        /\ engine_risk.risk_score
              < RiskOfSignals(fusion_input,
                              PresentSignals(fusion_input) \ {signal})
        /\ engine_risk.risk_score > 0

\* has the latest detect call returned for this text, without a context?
Detected(text) ==
    /\ last_detect.kind = "returned"
    /\ last_detect.text = text
    /\ last_detect.context = NoDetectContext

\* does the result hold a detection of this category and method?
HasDetection(result, category, method) ==
    \E k \in 1..Len(result.detections) :
        /\ result.detections[k].category = category
        /\ result.detections[k].method = method

\* C21 as stated: for "You are such an idiot!" without a context the result
\* holds a harassment detection with method 'exact', is_abusive is true and
\* the risk level is MEDIUM or HIGH.
C21_IdiotIsMediumOrHigh ==
    Detected(IdiotText) =>
        /\ HasDetection(last_detect.result, "harassment", "exact")
        /\ last_detect.result.is_abusive
        /\ last_detect.result.risk_level \in {"MEDIUM", "HIGH"}

\* C21, amended: for "You are such an idiot!" without a context the result
\* holds a harassment detection with method 'exact', is_abusive is true, and
\* the aggregate score is the capped 100, so the risk level is CRITICAL.
C21_IdiotIsCritical ==
    Detected(IdiotText) =>
        /\ HasDetection(last_detect.result, "harassment", "exact")
        /\ last_detect.result.is_abusive
        /\ last_detect.result.risk_score = 100 * 100
        /\ last_detect.result.risk_level = "CRITICAL"

\* the scenario text has been analysed, after other texts filled the cache
C21_Witness ==
    /\ Detected(IdiotText)
    /\ last_detect.result.risk_level = "CRITICAL"
    /\ Len(detection_cache) = MaxCacheSize

\* C22: every Detection of a result has a severity in 1..4, whatever the
\* taxonomy and the context.
C22_SeverityWithinOneToFour ==
    last_detect.kind = "returned" =>
        \A k \in 1..Len(last_detect.result.detections) :
            last_detect.result.detections[k].severity \in 1..4

\* C23: add_custom_pattern with a malformed regular expression returns False
\* and leaves the taxonomy exactly as it was before the call.
C23_MalformedPatternChangesNothing ==
    (/\ last_pattern_call.op = "add_custom_pattern"
     /\ last_pattern_call.pattern = Malformed)
        => /\ ~last_pattern_call.result
           /\ abusive_patterns = last_pattern_call.before

\* C26: in every result is_abusive is true exactly when risk_score > 0, which
\* is exactly when there are detections; an empty or non-str input gives
\* is_abusive false, risk_score 0.0 and no detections.
C26_AbusiveIffScoreIffDetections ==
    last_detect.kind = "returned" =>
        /\ last_detect.result.is_abusive <=> last_detect.result.risk_score > 0
        /\ last_detect.result.risk_score > 0
              <=> last_detect.result.detections /= <<>>
        /\ last_detect.text \in {EmptyText, NotAString}
              => last_detect.result = EmptyResult

\* what a detector without a cache returns for a text under a taxonomy
UncachedResult(text, context, taxonomy) ==
    IF text \in {EmptyText, NotAString} THEN EmptyResult
    ELSE RunDetection(text, context, taxonomy)

\* C29: the cache is transparent: every detect call that returns gives what
\* an uncached detector with the current taxonomy gives for the same text and
\* context.
C29_CacheIsTransparent ==
    [][last_detect' /= last_detect =>
          last_detect'.result = UncachedResult(last_detect'.text,
                                               last_detect'.context,
                                               abusive_patterns')]_vars

\* did the latest analyze_content call run the analysis to its end?
AnalysisSucceeded ==
    /\ response.kind = "result"
    /\ last_request.raised = "none"
    /\ last_request.content \notin {"none", "empty", "too_long", "unencodable"}

\* C24: with caching enabled, a request with the content, context and mode of
\* a request that was just answered successfully is answered from the
\* analysis cache: same risk score and level, and no analysis is run again.
C24_RepeatedRequestIsServedFromCache ==
    [][(/\ AnalysisSucceeded
        /\ calls' = calls + 1
        /\ CacheKey(last_request'.content, last_request'.ctx_user,
                    last_request'.mode)
              = CacheKey(last_request.content, last_request.ctx_user,
                         last_request.mode))
          => /\ response'.cached
             /\ response'.risk_score = response.risk_score
             /\ response'.risk_level = response.risk_level
             /\ total_analyses' = total_analyses]_vars

\* the latest update_escalation_score call was for a user with a profile
EscalationCalled(user_id) ==
    /\ ecalls' = ecalls + 1
    /\ last_escalation'.user_id = user_id
    /\ user_id \in DOMAIN user_profiles

\* the time up to which the decay of the user's idle period has been charged:
\* the previous call when it was for the same user and the same last
\* activity, else the last activity itself
ChargedUntil(user_id) ==
    IF /\ last_escalation.known
       /\ last_escalation.user_id = user_id
       /\ last_escalation.last_activity = user_profiles[user_id].last_activity
    THEN last_escalation.time
    ELSE user_profiles[user_id].last_activity

\* C27, the order: the score is decayed first and increased afterwards.
C27_DecaysBeforeItIncreases ==
    \A user_id \in Users :
        (EscalationCalled(user_id) /\ ~last_escalation.known) =>
            user_profiles'[user_id].escalation_score =
                IF user_profiles[user_id].last_activity \in {-1, 0}
                THEN Min(EscalationOne, user_profiles[user_id].escalation_score
                                          + last_escalation'.increase)
                ELSE Min(EscalationOne,
                         Max(0, user_profiles[user_id].escalation_score
                                  - DecayPerTick
                                      * (now - user_profiles[user_id].last_activity))
                         + last_escalation'.increase)

\* C27, the range: the stored score is within [0, 1] after every call.
C27_ScoreStaysInRange ==
    \A user_id \in Users :
        EscalationCalled(user_id) =>
            user_profiles'[user_id].escalation_score \in 0..EscalationOne

\* C27, the charge: a call that adds nothing takes off no more than the decay
\* of the time not yet charged for.
C27_IdlePeriodChargedOnce ==
    \A user_id \in Users :
        (/\ EscalationCalled(user_id)
         /\ last_escalation'.increase = 0
         /\ user_profiles[user_id].last_activity \notin {-1, 0}) =>
            user_profiles'[user_id].escalation_score >=
                Max(0, user_profiles[user_id].escalation_score
                         - DecayPerTick * (now - ChargedUntil(user_id)))

\* C27: update_escalation_score first decays the stored score by 0.1 a day
\* for the time since the user's last activity and only then adds
\* confidence x 0.1 for every threat and stalking match; the score is within
\* [0, 1] after every call, and one idle period is charged once.
C27_EscalationDecaysThenIncreasesOnce ==
    [][/\ C27_DecaysBeforeItIncreases
       /\ C27_ScoreStaysInRange
       /\ C27_IdlePeriodChargedOnce]_vars

\* is the match the target word itself, standing in the text as it is spelt?
PlainOccurrence(text, match) ==
    SubSeq(Letters(text), match.position[1] + 1, match.position[2])
        = Letters(match.original_word)

\* the target words of the latest detect_obfuscated_words call
TargetsOfCall ==
    {last_obfuscation.target_words[k] : k \in 1..Len(last_obfuscation.target_words)}

\* C25: the obfuscation detector reports the plain texts 'hello' and 'normal'
\* as not obfuscated and the leetspeak, spaced-out and dash-separated
\* spellings of a target word as obfuscated; a target word standing in the
\* text in its plain spelling gives no match.
C25_OnlyDisguisedWordsAreReported ==
    last_obfuscation.kind = "returned" =>
        /\ last_obfuscation.text \in {"hello", "normal"}
              => last_obfuscation.result = <<>>
        /\ (last_obfuscation.text = "h3ll0" /\ "hello" \in TargetsOfCall)
              => last_obfuscation.result /= <<>>
        /\ (last_obfuscation.text = "s t u p i d" /\ "stupid" \in TargetsOfCall)
              => last_obfuscation.result /= <<>>
        /\ (last_obfuscation.text = "i-d-i-o-t" /\ "idiot" \in TargetsOfCall)
              => last_obfuscation.result /= <<>>
        /\ \A k \in 1..Len(last_obfuscation.result) :
              ~PlainOccurrence(last_obfuscation.text, last_obfuscation.result[k])

RECURSIVE SortForSelection(_)
\* the candidates sorted by (confidence descending, start offset)
SortForSelection(matches) ==
    IF matches = <<>> THEN <<>>
    ELSE LET rest == SortForSelection(Tail(matches))
             first(m) ==
                 \/ m.confidence > Head(matches).confidence
                 \/ /\ m.confidence = Head(matches).confidence
                    /\ m.position[1] < Head(matches).position[1]
             later(m) == ~first(m)
         IN  SelectSeq(rest, first) \o <<Head(matches)>> \o SelectSeq(rest, later)

RECURSIVE GreedySelection(_, _)
\* the overlap resolution as specified: a candidate is kept unless its span
\* overlaps a match of the same original word that was kept before it
GreedySelection(sorted_matches, kept) ==
    IF sorted_matches = <<>> THEN kept
    ELSE IF \E k \in 1..Len(kept) :
               /\ PositionsOverlap(Head(sorted_matches).position, kept[k].position)
               /\ Head(sorted_matches).original_word = kept[k].original_word
    THEN GreedySelection(Tail(sorted_matches), kept)
    ELSE GreedySelection(Tail(sorted_matches), Append(kept, Head(sorted_matches)))

\* what tells two matches apart: the word, the span and the confidence
MatchKeys(matches) ==
    {<<matches[k].original_word, matches[k].position, matches[k].confidence>> :
        k \in 1..Len(matches)}

\* is the candidate returned, or does it overlap a returned match of its word?
KeptOrOverlapped(candidate, result) ==
    \E k \in 1..Len(result) :
        /\ candidate.original_word = result[k].original_word
        /\ \/ candidate.position = result[k].position
           \/ PositionsOverlap(candidate.position, result[k].position)

\* C28: the result of detect_obfuscated_words is the greedy selection over
\* the candidates sorted by (confidence descending, start offset): no two
\* returned matches of one word overlap, a candidate that overlaps no
\* returned match is not lost, and the list is sorted by confidence
\* descending.
C28_ResultIsGreedySelection ==
    last_obfuscation.kind = "returned" =>
        /\ MatchKeys(last_obfuscation.result)
              = MatchKeys(GreedySelection(
                              SortForSelection(last_obfuscation.candidates), <<>>))
        /\ \A j, k \in 1..Len(last_obfuscation.result) :
              (/\ j /= k
               /\ last_obfuscation.result[j].original_word
                     = last_obfuscation.result[k].original_word)
                 => ~PositionsOverlap(last_obfuscation.result[j].position,
                                      last_obfuscation.result[k].position)
        /\ \A c \in 1..Len(last_obfuscation.candidates) :
              KeptOrOverlapped(last_obfuscation.candidates[c], last_obfuscation.result)
        /\ \A k \in 1..(Len(last_obfuscation.result) - 1) :
              last_obfuscation.result[k].confidence
                 >= last_obfuscation.result[k + 1].confidence

\* C30: get_message_status never answers 'completed' for a message whose
\* processing raised an error, waiting for its retry or failed for good, and
\* answers 'blocked' for every blocked message still in the history.
C30_StatusReportsTheOutcome ==
    \A m \in MsgIds :
        /\ status[m] = "failed" => GetMessageStatus(m).status /= "completed"
        /\ (\E k \in 1..Len(blocked_messages) : blocked_messages[k].message_id = m)
              => GetMessageStatus(m).status = "blocked"
====
